---- MODULE Spec2Model ----
(***************************************************************************)
(* Model of the recognition-and-attendance pipeline of                     *)
(* src/backend/recognizer_arcface.py with its attendance queue             *)
(* (src/backend/local_database.py) and its background drain                *)
(* (src/backend/sync_local_logs.py).                                       *)
(*                                                                         *)
(* The module holds several specifications over one set of variables; each *)
(* one runs the threads of one part of the program and leaves the other    *)
(* variables alone:                                                        *)
(*   SpecFrame    video_sender_thread -> frame_queue -> detection take     *)
(*   SpecLog      log_time_in / log_time_out against LogSyncService        *)
(*   SpecSession  the session tracker inside face_detection_thread         *)
(*   SpecReload   load_embeddings against the matching step                *)
(*   SpecResolve  get_current_schedule with its cache and fallbacks        *)
(*   SpecPipe     detection, publication and output_thread                 *)
(*   SpecStream   read_single_frame on the bytes of the pipe, thread loops *)
(***************************************************************************)
EXTENDS Integers, Sequences, FiniteSets, TLC

VARIABLES
    \* ---- frame hand-off (SpecFrame) ----
    stdin,          \* frames written to the pipe and not yet read (frame ids)
    nextFrame,      \* id of the next frame the transport will write
    vs_pc,          \* video_sender_thread: "read" | "select" | "put" | "drop" | "reput"
    vs_latest,      \* video_sender_thread: latest_frame (0 = None)
    vs_iter,        \* video_sender_thread: iterations of the skip loop done
    frame_queue,    \* frame_queue = Queue(maxsize=5), oldest first
    handed,         \* history: frames placed into frame_queue, in order
    taken,          \* history: frames the detection stage took, in order
    handedAtTake,   \* history: Len(handed) at each take
    \* ---- attendance queue, logger and drain (SpecLog) ----
    OFFLINE_MODE,           \* OFFLINE_MODE of the environment, fixed at start
    net,                    \* what the network does to a request made now
    attendance_logs_queue,  \* rows of the table attendance_logs_queue, by id
    next_log_id,            \* AUTOINCREMENT: id of the next inserted row
    accepted,               \* history: 200 answers of the remote store per row id
    since,                  \* history per row id: "offline" | "restored" | "online"
    week_old,               \* ids of the rows whose synced_at is over 7 days old
    insert_done,            \* history: calls whose queue_attendance_log returned
    calls,                  \* number of log_time_in / log_time_out calls started
    lg_pc,                  \* log_time_in / log_time_out: position in the call
    lg_call,                \* its arguments [kind, name, schedule_id, is_late]
    lg_log_id,              \* its log_id (0 before the insert, -1 insert failed)
    lg_ret,                 \* <<return value>> of the last finished call, <<>> before
    sy_pc,                  \* LogSyncService.sync_logs: position
    sy_batch,               \* its unsynced_logs
    sy_i,                   \* index of the log the for loop is at
    sy_failed,              \* history: a request of this sync_logs call raised
    \* ---- session tracker (SpecSession) ----
    now,                    \* datetime.now(), in seconds since the threads started
    ticks,                  \* number of clock steps taken
    person_sessions,        \* person_sessions: name -> PersonSession
    last_absence_check,     \* face_detection_thread.last_absence_check
    detected,               \* currently_detected_names of the last processed frame
    events,                 \* the events list of the last processed frame
    frame_faces,            \* history: all_similarities of the last processed frame,
                            \* one column per face
    looked_up,              \* history: the names whose schedule that frame had looked up
    latest_detection_result,\* latest_detection_result: faces and events
    \* ---- face database reload (SpecReload) ----
    dataset,                \* DATASET_DIR on disk: whether it exists, its image files
    reload_requested,       \* reload_requested (threading.Event)
    change_events,          \* history: set() calls since the last clear(), and how
                            \* many of them the last clear() took
    known_embeddings,       \* known_embeddings: one row per enrolled face
    known_names,            \* known_names: the label of each row
    embeddings_lock,        \* who holds embeddings_lock: "free", "main" or "detect"
    ld_pc,                  \* main thread: where reload_embeddings_if_needed / load_embeddings is
    all_images,             \* load_embeddings: all_images
    temp_embeddings,        \* load_embeddings: temp_embeddings
    temp_names,             \* load_embeddings: temp_names
    ld_ret,                 \* <<>> or <<what the last load_embeddings returned>>
    ld_pre,                 \* the live pair before the reload under way, or as last installed
    rd_pc,                  \* detection thread: where its matching step is
    rd_embeddings,          \* the matrix the matching step multiplied with
    rd_names,               \* the name list the matching step indexed
    \* ---- schedule resolver (SpecResolve) ----
    schedule_cache,         \* schedule_cache: formatted name -> list of schedules
    remote_store,           \* the schedules of the remote store, by formatted name
    rs_pc,                  \* get_current_schedule: position in the call
    rs_call,                \* its arguments and the clock reading of the call
    rs_attempt,             \* its "attempt" of the retry loop
    rs_requests,            \* history: requests.post calls made by the call
    rs_hit,                 \* history: the cache had a current schedule at the call
    rs_data,                \* response.json() of the answer being handled
    rs_ret,                 \* <<>> or <<what the last call returned>>
    rs_path,                \* history: the return statement the last call left by
    \* ---- emission stage (SpecPipe) ----
    last_sent_signature,    \* output_thread.last_sent_signature (<<>> = None)
    out_pc,                 \* output_thread: "sleep", or "clear" before it empties the events
    out_tick,               \* history: flips at every tick of output_thread
    out_wrote,              \* history: the last tick printed an object
    out_last,               \* history: the last object printed
    emitted_time_in,        \* history: 'time in' / 'late' events printed so far
    submitted,              \* history: the frames handed to the detection stage (their faces)
    \* ---- frame channel in bytes, thread loops (SpecStream) ----
    stdin_buffer,           \* sys.stdin.buffer: the bytes written and not yet read
    stdin_closed,           \* the camera process closed its end: end of stream
    sent,                   \* history: the frames the camera process wrote
    sv_pc,                  \* video_sender_thread: "read" | "payload" | "select" |
                            \* "sleep" | "put" | "ended"
    frame_len,              \* read_single_frame: frame_len
    latest_frame,           \* video_sender_thread: latest_frame (<<>> = None)
    sv_iter,                \* video_sender_thread: frames read in the skip loop
    returned,               \* history: the frames read_single_frame returned
    errors,                 \* history: exceptions raised in each stage
    main_pc,                \* main thread: "running" in its loop, or "exited"
    \* ---- matcher (SpecMatch) ----
    mt_known,               \* known_embeddings: one unit vector per row
    mt_names,               \* known_names: the label of each row
    mt_queries,             \* normalized_embeddings: one unit vector per face
    mt_pc,                  \* "frame" before the frame is matched, then "batched"
    mt_similarities,        \* all_similarities
    mt_batch,               \* the matches of face_detection_thread, one per face
    mt_single,              \* the matches of the one-face loop, so far
    \* ---- watcher with its debounce (FairSpecWatch) ----
    last_event_time,        \* FaceDatasetWatcher.last_event_time: the position in the
                            \* directory of the image whose last processed event is
                            \* less than debounce_seconds old (0: no such image)
    image_events,           \* history: image events so far
    \* ---- embedding database and its cache (SpecEmbeddingDb) ----
    embeddings_table,       \* the rows of the table embeddings
    embeddings_cache,       \* _embeddings_cache
    names_cache,            \* _names_cache
    el_pc,                  \* load_embeddings_from_db: "idle" | "select" | "update"
    el_rows,                \* load_embeddings_from_db: rows
    el_ret,                 \* <<>> or <<what the last call returned>>
    el_calls,               \* history: calls of load_embeddings_from_db
    ew_pc,                  \* the writing call: "idle" | "execute" | "invalidate"
    ew_op,                  \* the writing call and its arguments
    ew_calls                \* history: writing calls

frameVars == <<stdin, nextFrame, vs_pc, vs_latest, vs_iter, frame_queue,
               handed, taken, handedAtTake>>

logVars == <<OFFLINE_MODE, net, attendance_logs_queue, next_log_id, accepted,
             since, week_old, insert_done, calls, lg_pc, lg_call, lg_log_id, lg_ret, sy_pc, sy_batch, sy_i, sy_failed>>

sessionVars == <<now, ticks, person_sessions, last_absence_check, detected, events>>

publishVars == <<frame_faces, looked_up, latest_detection_result>>

reloadVars == <<dataset, reload_requested, change_events, known_embeddings, known_names, embeddings_lock,
                ld_pc, all_images, temp_embeddings, temp_names, ld_ret, ld_pre,
                rd_pc, rd_embeddings, rd_names>>

resolveVars == <<schedule_cache, remote_store, rs_pc, rs_call, rs_attempt, rs_requests,
                 rs_hit, rs_data, rs_ret, rs_path>>

\* the parts added after the first four
outputVars == <<last_sent_signature, out_pc, out_tick, out_wrote, out_last, emitted_time_in>>

streamVars == <<stdin_buffer, stdin_closed, sent, sv_pc, frame_len, latest_frame, sv_iter,
                returned, errors, main_pc>>

pipeVars == <<submitted>>

matchVars == <<mt_known, mt_names, mt_queries, mt_pc, mt_similarities, mt_batch, mt_single>>

watchVars == <<last_event_time, image_events>>

embeddingDbVars == <<embeddings_table, embeddings_cache, names_cache, el_pc, el_rows, el_ret,
                     el_calls, ew_pc, ew_op, ew_calls>>

lateVars == <<watchVars, embeddingDbVars>>

moreVars == <<resolveVars, outputVars, pipeVars, streamVars, matchVars, lateVars>>

vars == <<frameVars, logVars, sessionVars, publishVars, reloadVars, moreVars>>

nonFrameVars == <<logVars, sessionVars, publishVars, reloadVars, moreVars>>
nonLogVars == <<frameVars, sessionVars, publishVars, reloadVars, moreVars>>
nonReloadVars == <<frameVars, logVars, sessionVars, publishVars, moreVars>>
firstVars == <<frameVars, logVars, sessionVars, publishVars, reloadVars>>
nonResolveVars == <<firstVars, outputVars, pipeVars, streamVars, matchVars, lateVars>>
nonOutputVars == <<frameVars, logVars, sessionVars, reloadVars, resolveVars, pipeVars,
                   streamVars, matchVars, lateVars>>
nonMatchVars == <<firstVars, resolveVars, outputVars, pipeVars, streamVars, lateVars>>
nonWatchVars == <<frameVars, logVars, sessionVars, publishVars, resolveVars, outputVars,
                  pipeVars, streamVars, matchVars, embeddingDbVars>>
nonEmbeddingDbVars == <<firstVars, resolveVars, outputVars, pipeVars, streamVars, matchVars,
                        watchVars>>

-----------------------------------------------------------------------------
(* Bounds of the model *)

\* frames the transport writes in one run
MaxFrames == 8

\* calls of log_time_in / log_time_out in one run
MaxLogs == 2

\* steps of the clock in one run
MaxTicks == 2
\* image files in the faces directory
MaxImages == 2

(* Program constants *)

ABSENCE_TIMEOUT_SECONDS == 300
SCHEDULE_RECHECK_INTERVAL_SECONDS == 5
SESSION_CLEANUP_TIMEOUT == 3600
\* "if (now - last_absence_check).total_seconds() >= 1"
ABSENCE_CHECK_PERIOD == 1

\* BATCH_SIZE of sync_local_logs.py
BATCH_SIZE == 10
\* default limit of get_unsynced_logs
UNSYNCED_DEFAULT_LIMIT == 100

\* frame_queue = Queue(maxsize=5)
FRAME_QUEUE_MAXSIZE == 5
\* max_skip = 100 in video_sender_thread
MAX_SKIP == 100

-----------------------------------------------------------------------------
(* Helpers *)

Max(a, b) == IF a >= b THEN a ELSE b
Min(a, b) == IF a <= b THEN a ELSE b

-----------------------------------------------------------------------------
(* queue.Queue as frame_queue uses it *)

\* Queue.full(): maxsize reached
QueueFull_unbounded(q) == FALSE
QueueFull(q) == Len(q) >= FRAME_QUEUE_MAXSIZE

\* Queue.put_nowait(x) when not full
QueuePut(q, x) == Append(q, x)

\* Queue.get / get_nowait: index of the item handed out (FIFO: the oldest)
QueueGetIndex_lifo(q) == Len(q)
QueueGetIndex(q) == 1

QueueGetItem(q) == q[QueueGetIndex(q)]
QueueAfterGet(q) ==
    LET k == QueueGetIndex(q)
    IN  SubSeq(q, 1, k - 1) \o SubSeq(q, k + 1, Len(q))

-----------------------------------------------------------------------------
(* Initial state *)

InitFrame ==
    /\ stdin = <<>>
    /\ nextFrame = 1
    /\ vs_pc = "read"
    /\ vs_latest = 0
    /\ vs_iter = 0
    /\ frame_queue = <<>>
    /\ handed = <<>>
    /\ taken = <<>>
    /\ handedAtTake = <<>>

-----------------------------------------------------------------------------
(* Transport: the camera process writes one length-prefixed frame *)

FrameArrives ==
    /\ nextFrame <= MaxFrames
    /\ stdin' = Append(stdin, nextFrame)
    /\ nextFrame' = nextFrame + 1
    /\ UNCHANGED <<vs_pc, vs_latest, vs_iter, frame_queue, handed, taken, handedAtTake>>
    /\ UNCHANGED nonFrameVars

(* video_sender_thread: read_single_frame() of the skip loop (blocks on the pipe) *)
VS_Read ==
    /\ vs_pc = "read"
    /\ stdin # <<>>
    /\ vs_latest' = Head(stdin)
    /\ stdin' = Tail(stdin)
    /\ vs_iter' = vs_iter + 1
    /\ vs_pc' = "select"
    /\ UNCHANGED <<nextFrame, frame_queue, handed, taken, handedAtTake>>
    /\ UNCHANGED nonFrameVars

(* video_sender_thread: select() with zero timeout; loop again while data waits *)
VS_Select ==
    /\ vs_pc = "select"
    /\ vs_pc' = IF stdin # <<>> /\ vs_iter < MAX_SKIP THEN "read" ELSE "put"
    /\ UNCHANGED <<stdin, nextFrame, vs_latest, vs_iter, frame_queue, handed, taken,
                   handedAtTake>>
    /\ UNCHANGED nonFrameVars

(* video_sender_thread: frame_queue.put_nowait(latest_frame); Full is caught *)
VS_Put ==
    /\ vs_pc = "put"
    /\ IF QueueFull(frame_queue)
         THEN /\ vs_pc' = "drop"
              /\ UNCHANGED <<frame_queue, handed, vs_latest, vs_iter>>
         ELSE /\ frame_queue' = QueuePut(frame_queue, vs_latest)
              /\ handed' = Append(handed, vs_latest)
              /\ vs_pc' = "read"
              /\ vs_latest' = 0
              /\ vs_iter' = 0
    /\ UNCHANGED <<stdin, nextFrame, taken, handedAtTake>>
    /\ UNCHANGED nonFrameVars

(* video_sender_thread: frame_queue.get_nowait() drops the oldest; Empty is passed *)
VS_Drop ==
    /\ vs_pc = "drop"
    /\ frame_queue' = IF frame_queue = <<>> THEN frame_queue ELSE QueueAfterGet(frame_queue)
    /\ vs_pc' = "reput"
    /\ UNCHANGED <<stdin, nextFrame, vs_latest, vs_iter, handed, taken, handedAtTake>>
    /\ UNCHANGED nonFrameVars

(* video_sender_thread: the second put_nowait; a second Full is passed *)
VS_Reput ==
    /\ vs_pc = "reput"
    /\ IF QueueFull(frame_queue)
         THEN UNCHANGED <<frame_queue, handed>>
         ELSE /\ frame_queue' = QueuePut(frame_queue, vs_latest)
              /\ handed' = Append(handed, vs_latest)
    /\ vs_pc' = "read"
    /\ vs_latest' = 0
    /\ vs_iter' = 0
    /\ UNCHANGED <<stdin, nextFrame, taken, handedAtTake>>
    /\ UNCHANGED nonFrameVars

(* face_detection_thread: frame_queue.get(timeout=0.005) returns a frame *)
D_Take ==
    /\ frame_queue # <<>>
    /\ taken' = Append(taken, QueueGetItem(frame_queue))
    /\ handedAtTake' = Append(handedAtTake, Len(handed))
    /\ frame_queue' = QueueAfterGet(frame_queue)
    /\ UNCHANGED <<stdin, nextFrame, vs_pc, vs_latest, vs_iter, handed>>
    /\ UNCHANGED nonFrameVars

(* face_detection_thread: the get times out (Empty) and the loop continues *)
D_PollEmpty ==
    /\ frame_queue = <<>>
    /\ UNCHANGED vars

NextFrame ==
    \/ FrameArrives
    \/ VS_Read
    \/ VS_Select
    \/ VS_Put
    \/ VS_Drop
    \/ VS_Reput
    \/ D_Take
    \/ D_PollEmpty

-----------------------------------------------------------------------------
(* The attendance queue (local_database.py), log_time_in / log_time_out      *)
(* (recognizer_arcface.py) and the background drain (sync_local_logs.py)     *)

\* Python's None
None == "<None>"

Names == {"Ana_Cruz", "Ben_Diaz"}

\* the identity the calls of SpecLog are made for
LogCallNames == {"Ana_Cruz"}

\* schedule ids a caller can pass: missing, empty, blank, the strings 'None' and
\* 'N/A', and a real id
ScheduleIdArgs == {None, "", " ", "None", "N/A", "s1"}

\* "no_internet": check_internet_connectivity() fails and requests raise;
\* "backend_down": the DNS probes answer but the request to BACKEND_API raises;
\* "rejecting": the store answers with a status other than 200; "ok": it answers 200
NetStates == {"no_internet", "backend_down", "rejecting", "ok"}

\* the import of local_database succeeded
LOCAL_DB_AVAILABLE == TRUE

\* LOG_SYNC_ENABLED, "true" unless the environment says otherwise
SYNC_ENABLED_off == FALSE
SYNC_ENABLED == TRUE

\* dict.get(key) of a row dict
DictGet(d, key) == IF key \in DOMAIN d THEN d[key] ELSE None

\* truth value of a str-or-None
Truthy(v) == v # None /\ v # ""

\* str.strip() on the ids of ScheduleIdArgs
Strip(v) == IF v = " " THEN "" ELSE v

\* the validation at the head of log_time_in / log_time_out
ValidScheduleId_truthy(sid) == Truthy(sid)
ValidScheduleId(sid) ==
    /\ Truthy(sid)
    /\ LET t == Strip(sid) IN ~(t = "" \/ t = "None" \/ t = "N/A")

\* check_internet_connectivity()
CheckInternetConnectivity(n) == n # "no_internet"

\* requests.post(...): "exception" | "non200" | "200"
PostOutcome(n) ==
    IF n \in {"no_internet", "backend_down"} THEN "exception"
    ELSE IF n = "rejecting" THEN "non200"
    ELSE "200"

\* the schedules the remote store has; a request that names another one (a schedule
\* deleted since the row was queued) is answered with a status other than 200
StoreSchedules == {"s1"}

\* the answer to the request sync_logs makes for one log
SyncOutcome(n, log) ==
    IF PostOutcome(n) = "200" /\ log.schedule_id \notin StoreSchedules THEN "non200"
    ELSE PostOutcome(n)

\* the row queue_attendance_log inserts
NewRow(id, call) ==
    [id |-> id,
     instructor_name |-> call.name,
     schedule_id |-> Strip(call.schedule_id),
     date |-> "today",
     time_in |-> IF call.kind = "in" THEN "now" ELSE None,
     time_out |-> IF call.kind = "out" THEN "now" ELSE None,
     log_type |-> IF call.kind = "out" THEN "time out"
                  ELSE IF call.is_late THEN "late" ELSE "time in",
     synced |-> 0]

\* queue_attendance_log: INSERT ... synced = 0
QueueAttendanceLog(q, id, call) == Append(q, NewRow(id, call))

\* get_unsynced_logs(limit): WHERE synced = 0 ORDER BY created_at ASC LIMIT ?
GetUnsyncedLogs(q, limit) ==
    LET u == SelectSeq(q, LAMBDA r : r.synced = 0)
    IN  SubSeq(u, 1, Min(limit, Len(u)))

\* mark_log_synced(log_id): UPDATE ... SET synced = 1 WHERE id = ?
MarkLogSynced(q, id) ==
    [i \in DOMAIN q |-> IF q[i].id = id THEN [q[i] EXCEPT !.synced = 1] ELSE q[i]]

\* clear_old_synced_logs(days=7): DELETE WHERE synced = 1 AND synced_at < now - 7 days
ClearOldSyncedLogs(q, old) == SelectSeq(q, LAMBDA r : ~(r.synced = 1 /\ r.id \in old))

\* log_time_out after a 200: the first unsynced log the loop's test accepts, or None
TimeOutMarkTarget(q, sid) ==
    LET logs == GetUnsyncedLogs(q, UNSYNCED_DEFAULT_LIMIT)
        hit(l) == /\ DictGet(l, "scheduleId") = sid
                  /\ DictGet(l, "date") = "today"
                  /\ Truthy(DictGet(l, "timeOut"))
        idx == {i \in 1..Len(logs) : hit(logs[i])}
    IN  IF idx = {} THEN None
        ELSE DictGet(logs[CHOOSE i \in idx : \A j \in idx : i <= j], "id")

NoCall == [kind |-> "none", name |-> None, schedule_id |-> None, is_late |-> FALSE]

\* history "since": "offline" while the store has not answered 200 at any time
\* since the row was inserted, "restored" once it could after an offline insert,
\* "online" for a row inserted while it could
SinceAtInsert(n) == IF n = "ok" THEN "online" ELSE "offline"

InitLog(modes, nets) ==
    /\ OFFLINE_MODE \in modes
    /\ net \in nets
    /\ since = <<>>
    /\ week_old = {}
    /\ attendance_logs_queue = <<>>
    /\ next_log_id = 1
    /\ accepted = <<>>
    /\ insert_done = {}
    /\ calls = 0
    /\ lg_pc = "idle"
    /\ lg_call = NoCall
    /\ lg_log_id = 0
    /\ lg_ret = <<>>
    /\ sy_pc = "sleep"
    /\ sy_batch = <<>>
    /\ sy_i = 0
    /\ sy_failed = FALSE

(* the network changes; rows inserted offline see the store come back *)
NetChange ==
    /\ \E n \in NetStates \ {net} :
        /\ net' = n
        /\ since' = [i \in DOMAIN since |->
                        IF n = "ok" /\ since[i] = "offline" THEN "restored" ELSE since[i]]
    /\ UNCHANGED <<OFFLINE_MODE, attendance_logs_queue, next_log_id, accepted, week_old,
                   insert_done, calls, lg_pc,
                   lg_call, lg_log_id, lg_ret, sy_pc, sy_batch, sy_i, sy_failed>>
    /\ UNCHANGED nonLogVars

(* seven days pass: every row synced by now has a synced_at older than 7 days *)
WeekPasses ==
    /\ LET synced_ids == {attendance_logs_queue[i].id :
                             i \in {j \in DOMAIN attendance_logs_queue :
                                       attendance_logs_queue[j].synced = 1}}
       IN  /\ ~(synced_ids \subseteq week_old)
           /\ week_old' = week_old \cup synced_ids
    /\ UNCHANGED <<OFFLINE_MODE, net, attendance_logs_queue, next_log_id, accepted, since,
                   insert_done, calls, lg_pc,
                   lg_call, lg_log_id, lg_ret, sy_pc, sy_batch, sy_i, sy_failed>>
    /\ UNCHANGED nonLogVars

(* the detection thread calls log_time_in or log_time_out *)
LG_Call ==
    /\ lg_pc = "idle"
    /\ calls < MaxLogs
    /\ \E kind \in {"in", "out"}, name \in LogCallNames, sid \in ScheduleIdArgs, late \in BOOLEAN :
        /\ kind = "out" => ~late
        /\ lg_call' = [kind |-> kind, name |-> name, schedule_id |-> sid, is_late |-> late]
    /\ calls' = calls + 1
    /\ lg_pc' = "validate"
    /\ lg_log_id' = 0
    /\ UNCHANGED <<since, week_old, OFFLINE_MODE, net, attendance_logs_queue, next_log_id, accepted,
                   insert_done, lg_ret, sy_pc, sy_batch, sy_i, sy_failed>>
    /\ UNCHANGED nonLogVars

LG_Return(value) ==
    /\ lg_ret' = <<value>>
    /\ lg_pc' = "idle"
    /\ lg_call' = NoCall

(* log_time_in / log_time_out: the schedule_id validation *)
LG_ValidateSkipQueue ==
    /\ lg_pc = "validate"
    /\ IF ValidScheduleId(lg_call.schedule_id)
         THEN lg_pc' = "connect" /\ UNCHANGED <<lg_ret, lg_call>>
         ELSE LG_Return(FALSE)
    /\ UNCHANGED <<since, week_old, OFFLINE_MODE, net, attendance_logs_queue, next_log_id, accepted,
                   insert_done, calls, lg_log_id, sy_pc, sy_batch, sy_i, sy_failed>>
    /\ UNCHANGED nonLogVars
LG_Validate ==
    /\ lg_pc = "validate"
    /\ IF ValidScheduleId(lg_call.schedule_id)
         THEN lg_pc' = "queue" /\ UNCHANGED <<lg_ret, lg_call>>
         ELSE LG_Return(FALSE)
    /\ UNCHANGED <<since, week_old, OFFLINE_MODE, net, attendance_logs_queue, next_log_id, accepted,
                   insert_done, calls, lg_log_id, sy_pc, sy_batch, sy_i, sy_failed>>
    /\ UNCHANGED nonLogVars

(* "Always queue locally first": queue_attendance_log (it returns -1 when sqlite *)
(* raises), then the OFFLINE_MODE return                                         *)
LG_Queue ==
    /\ lg_pc = "queue"
    /\ LOCAL_DB_AVAILABLE
    /\ \E inserted \in BOOLEAN :
        IF inserted
          THEN /\ attendance_logs_queue' =
                    QueueAttendanceLog(attendance_logs_queue, next_log_id, lg_call)
               /\ lg_log_id' = next_log_id
               /\ next_log_id' = next_log_id + 1
               /\ accepted' = Append(accepted, 0)
               /\ since' = Append(since, SinceAtInsert(net))
          ELSE /\ lg_log_id' = -1
               /\ UNCHANGED <<attendance_logs_queue, next_log_id, accepted, since>>
    /\ insert_done' = insert_done \cup {calls}
    /\ IF OFFLINE_MODE
         THEN LG_Return(TRUE)
         ELSE lg_pc' = "connect" /\ UNCHANGED <<lg_ret, lg_call>>
    /\ UNCHANGED <<OFFLINE_MODE, net, week_old, calls, sy_pc, sy_batch, sy_i, sy_failed>>
    /\ UNCHANGED nonLogVars

(* check_internet_connectivity() before the request *)
LG_Connect ==
    /\ lg_pc = "connect"
    /\ IF CheckInternetConnectivity(net)
         THEN lg_pc' = "post" /\ UNCHANGED <<lg_ret, lg_call>>
         ELSE LG_Return(TRUE)
    /\ UNCHANGED <<since, week_old, OFFLINE_MODE, net, attendance_logs_queue, next_log_id, accepted,
                   insert_done, calls, lg_log_id, sy_pc, sy_batch, sy_i, sy_failed>>
    /\ UNCHANGED nonLogVars

(* requests.post(.../log-time-in | log-time-out) and the test of the status *)
LG_Post ==
    /\ lg_pc = "post"
    /\ LET out == PostOutcome(net)
       IN  IF out = "200"
             THEN /\ accepted' = IF lg_log_id > 0
                                   THEN [accepted EXCEPT ![lg_log_id] = @ + 1]
                                   ELSE accepted
                  /\ lg_pc' = "mark"
                  /\ UNCHANGED <<lg_ret, lg_call>>
             ELSE /\ LG_Return(IF out = "non200" /\ lg_call.kind = "out" THEN FALSE ELSE TRUE)
                  /\ UNCHANGED accepted
    /\ UNCHANGED <<since, week_old, OFFLINE_MODE, net, attendance_logs_queue, next_log_id,
                   insert_done, calls, lg_log_id, sy_pc, sy_batch, sy_i, sy_failed>>
    /\ UNCHANGED nonLogVars

(* after a 200: log_time_in marks its own row; log_time_out looks its row up *)
(* among the unsynced logs and marks the first one its test accepts           *)
LG_Mark ==
    /\ lg_pc = "mark"
    /\ attendance_logs_queue' =
         IF lg_call.kind = "in"
           THEN MarkLogSynced(attendance_logs_queue, lg_log_id)
           ELSE LET target == TimeOutMarkTarget(attendance_logs_queue,
                                                Strip(lg_call.schedule_id))
                IN  IF target = None THEN attendance_logs_queue
                    ELSE MarkLogSynced(attendance_logs_queue, target)
    /\ LG_Return(TRUE)
    /\ UNCHANGED <<since, week_old, OFFLINE_MODE, net, next_log_id, accepted, insert_done, calls,
                   lg_log_id, sy_pc, sy_batch, sy_i, sy_failed>>
    /\ UNCHANGED nonLogVars

(* sync_logs: get_unsynced_logs(limit=BATCH_SIZE); nothing to do returns 0 *)
SY_Fetch ==
    /\ sy_pc = "sleep"
    /\ LOCAL_DB_AVAILABLE /\ SYNC_ENABLED
    /\ LET logs == GetUnsyncedLogs(attendance_logs_queue, BATCH_SIZE)
       IN  IF logs = <<>>
             THEN UNCHANGED <<sy_pc, sy_batch, sy_i, sy_failed>>
             ELSE sy_pc' = "post" /\ sy_batch' = logs /\ sy_i' = 1 /\ sy_failed' = FALSE
    /\ UNCHANGED <<since, week_old, OFFLINE_MODE, net, attendance_logs_queue, next_log_id, accepted,
                   insert_done, calls, lg_pc, lg_call, lg_log_id, lg_ret>>
    /\ UNCHANGED nonLogVars

\* the for loop of sync_logs moves to the next log, or leaves the loop
SY_Advance ==
    IF sy_i < Len(sy_batch)
      THEN sy_i' = sy_i + 1 /\ sy_pc' = "post" /\ UNCHANGED sy_batch
      ELSE sy_i' = 0 /\ sy_pc' = "purge" /\ sy_batch' = <<>>

(* sync_logs: the request for one log of the batch; an exception or a status *)
(* other than 200 is printed and the loop goes on                            *)
SY_Post_markAnyway ==
    /\ sy_pc = "post"
    /\ LET log == sy_batch[sy_i]
           isIn == Truthy(DictGet(log, "time_in")) /\ ~Truthy(DictGet(log, "time_out"))
           isOut == ~isIn /\ Truthy(DictGet(log, "time_out"))
       IN  IF isIn \/ isOut
             THEN /\ accepted' = IF SyncOutcome(net, log) = "200"
                                   THEN [accepted EXCEPT ![log.id] = @ + 1]
                                   ELSE accepted
                  /\ sy_pc' = "mark"
                  /\ UNCHANGED <<sy_batch, sy_i, sy_failed>>
             ELSE /\ SY_Advance
                  /\ sy_failed' = (sy_failed \/ ((isIn \/ isOut) /\ SyncOutcome(net, log) = "exception"))
                  /\ UNCHANGED accepted
    /\ UNCHANGED <<since, week_old, OFFLINE_MODE, net, attendance_logs_queue, next_log_id,
                   insert_done, calls, lg_pc, lg_call, lg_log_id, lg_ret>>
    /\ UNCHANGED nonLogVars
SY_Post ==
    /\ sy_pc = "post"
    /\ LET log == sy_batch[sy_i]
           isIn == Truthy(DictGet(log, "time_in")) /\ ~Truthy(DictGet(log, "time_out"))
           isOut == ~isIn /\ Truthy(DictGet(log, "time_out"))
       IN  IF (isIn \/ isOut) /\ SyncOutcome(net, log) = "200"
             THEN /\ accepted' = [accepted EXCEPT ![log.id] = @ + 1]
                  /\ sy_pc' = "mark"
                  /\ UNCHANGED <<sy_batch, sy_i, sy_failed>>
             ELSE /\ SY_Advance
                  /\ sy_failed' = (sy_failed \/ ((isIn \/ isOut) /\ SyncOutcome(net, log) = "exception"))
                  /\ UNCHANGED accepted
    /\ UNCHANGED <<since, week_old, OFFLINE_MODE, net, attendance_logs_queue, next_log_id,
                   insert_done, calls, lg_pc, lg_call, lg_log_id, lg_ret>>
    /\ UNCHANGED nonLogVars

(* sync_logs: mark_log_synced(log_id) after the 200 *)
SY_Mark ==
    /\ sy_pc = "mark"
    /\ attendance_logs_queue' = MarkLogSynced(attendance_logs_queue, sy_batch[sy_i].id)
    /\ SY_Advance
    /\ UNCHANGED <<since, week_old, OFFLINE_MODE, net, next_log_id, accepted, insert_done, calls,
                   lg_pc, lg_call, lg_log_id, lg_ret, sy_failed>>
    /\ UNCHANGED nonLogVars

(* sync_logs: clear_old_synced_logs(days=7), then _sync_loop sleeps *)
SY_Purge ==
    /\ sy_pc = "purge"
    /\ attendance_logs_queue' = ClearOldSyncedLogs(attendance_logs_queue, week_old)
    /\ sy_pc' = "sleep"
    /\ sy_failed' = FALSE
    /\ UNCHANGED <<since, week_old, OFFLINE_MODE, net, next_log_id, accepted, insert_done, calls,
                   lg_pc, lg_call, lg_log_id, lg_ret, sy_batch, sy_i>>
    /\ UNCHANGED nonLogVars

NextLog ==
    \/ NetChange
    \/ WeekPasses
    \/ LG_Call
    \/ LG_Validate
    \/ LG_Queue
    \/ LG_Connect
    \/ LG_Post
    \/ LG_Mark
    \/ SY_Fetch
    \/ SY_Post
    \/ SY_Mark
    \/ SY_Purge

-----------------------------------------------------------------------------
(* log_time_in / log_time_out run from call to return, as the session tracker *)
(* sees them: the same steps as LG_Validate .. LG_Mark, without interleaving  *)

\* v bound once: F(v)
With(v, F(_)) == F(v)

\* the log tables as one value
LogState == [q |-> attendance_logs_queue, next_id |-> next_log_id,
             accepted |-> accepted, since |-> since]

\* queue_attendance_log, when the insert works: the row and its bookkeeping
LogInsert(ls, call) ==
    [q |-> QueueAttendanceLog(ls.q, ls.next_id, call),
     next_id |-> ls.next_id + 1,
     accepted |-> Append(ls.accepted, 0),
     since |-> Append(ls.since, SinceAtInsert(net))]

\* the store answered 200: the row is accepted, the marking that follows
LogAccepted(ls, call, log_id) ==
    With(IF log_id > 0 THEN [ls EXCEPT !.accepted[log_id] = @ + 1] ELSE ls,
         LAMBDA ls2 :
           With(IF call.kind = "in" THEN log_id
                ELSE TimeOutMarkTarget(ls2.q, Strip(call.schedule_id)),
                LAMBDA target :
                  IF call.kind = "out" /\ target = None
                    THEN ls2
                    ELSE [ls2 EXCEPT !.q = MarkLogSynced(ls2.q, target)]))

\* after the local insert: offline return, connectivity check, POST, marking
LogSend(ls1, call, log_id) ==
    IF OFFLINE_MODE THEN [ls |-> ls1, ret |-> TRUE]
    ELSE IF ~CheckInternetConnectivity(net) THEN [ls |-> ls1, ret |-> TRUE]
    ELSE IF PostOutcome(net) = "exception" THEN [ls |-> ls1, ret |-> TRUE]
    ELSE IF PostOutcome(net) = "non200" THEN [ls |-> ls1, ret |-> (call.kind # "out")]
    ELSE [ls |-> LogAccepted(ls1, call, log_id), ret |-> TRUE]

LogRun(ls, call, inserted) ==
    IF ~ValidScheduleId(call.schedule_id) THEN [ls |-> ls, ret |-> FALSE]
    ELSE IF inserted THEN LogSend(LogInsert(ls, call), call, ls.next_id)
    ELSE LogSend(ls, call, -1)

-----------------------------------------------------------------------------
(* PersonSession and the session handling of face_detection_thread *)

\* a schedule as the resolver returns it; found = FALSE is None
NoSchedule == [found |-> FALSE, id |-> None, isValidSchedule |-> FALSE, is_late |-> FALSE]
Schedule(id, valid, late) ==
    [found |-> TRUE, id |-> id, isValidSchedule |-> valid, is_late |-> late]

\* what get_current_schedule / batch_get_schedules can answer for an identity:
\* no current schedule, a schedule in time and room, a late one, one in the wrong
\* room, and one without a usable _id
ScheduleResults ==
    {NoSchedule, Schedule("s1", TRUE, FALSE), Schedule("s1", TRUE, TRUE),
     Schedule("s1", FALSE, FALSE), Schedule("N/A", TRUE, FALSE)}

\* left_at = None
NoTime == -1

\* per session: the time-in/late events, first_detected events and time-in rows, the
\* time_out events and rows, and the absence_minutes of the last returned event
NoEvents == [time_in |-> 0, first_detected |-> 0, in_rows |-> 0, time_out |-> 0,
             out_rows |-> 0, absence_minutes |-> 0]

\* an entry of the events list
Event(type, name) == <<type, name>>

\* PersonSession.__init__; ev counts what the session has produced so far
NewSession(t) ==
    [last_seen |-> t, total_time_seconds |-> 0, is_present |-> TRUE,
     left_at |-> NoTime, schedule |-> NoSchedule, time_in_logged |-> FALSE,
     time_out_logged |-> FALSE, is_late |-> FALSE, log_type |-> None,
     last_schedule_check |-> t, ev |-> NoEvents]

\* PersonSession.update_presence
UpdatePresence(s, t) ==
    IF s.is_present
      THEN [s EXCEPT !.total_time_seconds = @ + (t - s.last_seen), !.last_seen = t]
      ELSE [s EXCEPT !.last_seen = t]

\* PersonSession.mark_left
MarkLeft(s, t) ==
    IF s.is_present
      THEN [UpdatePresence(s, t) EXCEPT !.is_present = FALSE, !.left_at = t]
      ELSE s

\* PersonSession.mark_returned
MarkReturned_keepLastSeen(s, t) ==
    IF ~s.is_present THEN [s EXCEPT !.is_present = TRUE] ELSE s
MarkReturned(s, t) ==
    IF ~s.is_present THEN [s EXCEPT !.is_present = TRUE, !.last_seen = t] ELSE s

\* mark_returned: "absence_duration = (returned_at - self.left_at).total_seconds()"
AbsenceDuration_sinceCheck(s, t) == t - s.last_schedule_check
AbsenceDuration(s, t) == t - s.left_at

\* "round(absence_duration / 60, 2)", in hundredths of a minute (whole seconds never
\* fall half-way between two hundredths)
AbsenceMinutes(seconds) == (10 * seconds + 3) \div 6

\* the session after "returned, absence_duration = session.mark_returned()" and the
\* re-check that follows, with the absence_minutes the returned event reports
ReturnedSession(s, t) ==
    [MarkReturned(s, t) EXCEPT !.last_schedule_check = t,
                               !.ev.absence_minutes = AbsenceMinutes(AbsenceDuration(s, t))]

\* "schedule.get('_id') or schedule.get('id')" and the caller's own validation
CallerScheduleId(sch) ==
    IF Truthy(sch.id) /\ ValidScheduleId(sch.id) THEN Strip(sch.id) ELSE None

LogTypeOf(late) == IF late THEN "late" ELSE "time in"

\* the time-in attempt of both the new-session and the re-check branch:
\* st = [sess |-> the session, ls |-> the log tables]
TimeInLogged(s, ls, name, sch, r) ==
    [sess |-> IF r.ret
                THEN [s EXCEPT !.time_in_logged = TRUE,
                               !.log_type = LogTypeOf(sch.is_late),
                               !.ev.time_in = @ + 1,
                               !.ev.in_rows = @ + (r.ls.next_id - ls.next_id)]
                ELSE [s EXCEPT !.ev.in_rows = @ + (r.ls.next_id - ls.next_id)],
     ls |-> r.ls,
     events |-> IF r.ret THEN <<Event(LogTypeOf(sch.is_late), name)>> ELSE <<>>]

TryTimeIn(s, ls, name, sch, inserted) ==
    TimeInLogged(s, ls, name, sch,
        IF CallerScheduleId(sch) # None
          THEN LogRun(ls, [kind |-> "in", name |-> name,
                           schedule_id |-> CallerScheduleId(sch),
                           is_late |-> sch.is_late], inserted)
          ELSE [ls |-> ls, ret |-> FALSE])

\* "if name not in person_sessions": create the session, log the time-in
NewSessionFace(ls, name, sch, t, inserted) ==
    IF sch.found
      THEN With(TryTimeIn([NewSession(t) EXCEPT !.schedule = sch, !.is_late = sch.is_late],
                          ls, name, sch, inserted),
                LAMBDA r :
                  [sess |-> [r.sess EXCEPT !.ev.first_detected = @ + 1], ls |-> r.ls,
                   events |-> Append(r.events, Event("first_detected", name))])
      ELSE [sess |-> [NewSession(t) EXCEPT !.schedule = sch], ls |-> ls,
            events |-> <<Event("detected_no_schedule", name)>>]

\* the re-check branches with "if not session.time_in_logged" taken out
ApplyRecheck_relog(s, ls, name, new, inserted) ==
    IF new.found /\ ~s.schedule.found
      THEN TryTimeIn([s EXCEPT !.schedule = new, !.is_late = new.is_late], ls, name, new,
                     inserted)
    ELSE IF new # s.schedule
      THEN [sess |-> IF new.found
                       THEN [s EXCEPT !.schedule = new, !.is_late = new.is_late]
                       ELSE [s EXCEPT !.schedule = NoSchedule],
            ls |-> ls, events |-> <<>>]
    ELSE [sess |-> s, ls |-> ls, events |-> <<>>]

\* the branches after a re-check returned new_schedule
ApplyRecheck(s, ls, name, new, inserted) ==
    IF new.found /\ ~s.schedule.found
      THEN IF ~s.time_in_logged
             THEN TryTimeIn([s EXCEPT !.schedule = new, !.is_late = new.is_late], ls, name,
                            new, inserted)
             ELSE [sess |-> [s EXCEPT !.schedule = new, !.is_late = new.is_late],
                   ls |-> ls, events |-> <<>>]
    ELSE IF new # s.schedule
      THEN [sess |-> IF new.found
                       THEN [s EXCEPT !.schedule = new, !.is_late = new.is_late]
                       ELSE [s EXCEPT !.schedule = NoSchedule],
            ls |-> ls, events |-> <<>>]
    ELSE IF new.found /\ s.schedule.found
      THEN [sess |-> [s EXCEPT !.schedule = new, !.is_late = new.is_late], ls |-> ls,
            events |-> <<>>]
    ELSE [sess |-> s, ls |-> ls, events |-> <<>>]

\* "else: existing session": return or presence update, and the schedule re-check
RecheckDue(s, t) == t - s.last_schedule_check >= SCHEDULE_RECHECK_INTERVAL_SECONDS

\* the existing-session branch whose re-check runs only on a return from absence
ExistingSessionFace_returnOnly(s, ls, name, new, t, inserted) ==
    IF ~s.is_present
      THEN With(ApplyRecheck(ReturnedSession(s, t), ls, name, new, inserted),
                LAMBDA r :
                  [sess |-> r.sess, ls |-> r.ls,
                   events |-> <<Event("returned", name)>> \o r.events])
    ELSE [sess |-> UpdatePresence(s, t), ls |-> ls, events |-> <<>>]
ExistingSessionFace(s, ls, name, new, t, inserted) ==
    IF ~s.is_present
      THEN With(ApplyRecheck(ReturnedSession(s, t), ls, name, new, inserted),
                LAMBDA r :
                  [sess |-> r.sess, ls |-> r.ls,
                   events |-> <<Event("returned", name)>> \o r.events])
    ELSE IF RecheckDue(UpdatePresence(s, t), t)
      THEN ApplyRecheck([UpdatePresence(s, t) EXCEPT !.last_schedule_check = t],
                        ls, name, new, inserted)
    ELSE [sess |-> UpdatePresence(s, t), ls |-> ls, events |-> <<>>]

\* one recognised face of the frame
ProcessFace(ps, ls, name, lookup, t, inserted) ==
    With(IF name \notin DOMAIN ps
           THEN NewSessionFace(ls, name, lookup[name], t, inserted)
           ELSE ExistingSessionFace(ps[name], ls, name, lookup[name], t, inserted),
         LAMBDA r :
           [ps |-> [n \in DOMAIN ps \cup {name} |-> IF n = name THEN r.sess ELSE ps[n]],
            ls |-> r.ls, events |-> r.events])

\* the order faces and sessions are gone through
NameOrder == <<"Ana_Cruz">>

\* the identities in front of the camera
SessionNames == {NameOrder[i] : i \in DOMAIN NameOrder}

\* "for ... in faces": the recognised faces of the frame, one after the other;
\* after[i] is the state after the first i identities of NameOrder
ProcessFaces(ps, ls, batch, lookup, t, inserted) ==
    LET after[i \in 0..Len(NameOrder)] ==
            IF i = 0 THEN [ps |-> ps, ls |-> ls, events |-> <<>>]
            ELSE IF NameOrder[i] \in batch
              THEN With(after[i - 1],
                        LAMBDA a :
                          With(ProcessFace(a.ps, a.ls, NameOrder[i], lookup, t, inserted),
                               LAMBDA r : [ps |-> r.ps, ls |-> r.ls,
                                           events |-> a.events \o r.events]))
            ELSE after[i - 1]
    IN  after[Len(NameOrder)]

\* the leave test without "and session.schedule"
AbsenceDue_noSchedule(s, name, batch, t) ==
    /\ s.is_present
    /\ name \notin batch
    /\ t - s.last_seen >= ABSENCE_TIMEOUT_SECONDS
\* check_absent_people: the test that lets a session leave
AbsenceDue(s, name, batch, t) ==
    /\ s.is_present
    /\ name \notin batch
    /\ s.schedule.found
    /\ t - s.last_seen >= ABSENCE_TIMEOUT_SECONDS

\* check_absent_people: the test that evicts a session
CleanupDue(s, t) ==
    /\ ~s.is_present
    /\ s.left_at # NoTime
    /\ t - s.left_at >= SESSION_CLEANUP_TIMEOUT

\* check_absent_people: one session that is due leaves, with its time-out
LeftSession(s1, ls, name, r) ==
    [sess |-> IF r.ret
                THEN [s1 EXCEPT !.time_out_logged = TRUE,
                                !.ev.time_out = @ + 1,
                                !.ev.out_rows = @ + (r.ls.next_id - ls.next_id)]
                ELSE [s1 EXCEPT !.ev.out_rows = @ + (r.ls.next_id - ls.next_id)],
     ls |-> r.ls,
     events |-> IF r.ret THEN <<Event("time_out", name), Event("left", name)>>
                ELSE <<Event("left", name)>>]

LeaveSession(s, ls, name, t, inserted) ==
    LeftSession(MarkLeft(s, t), ls, name,
        IF /\ s.schedule.found /\ s.time_in_logged /\ ~s.time_out_logged
           /\ CallerScheduleId(s.schedule) # None
          THEN LogRun(ls, [kind |-> "out", name |-> name,
                           schedule_id |-> CallerScheduleId(s.schedule),
                           is_late |-> FALSE], inserted)
          ELSE [ls |-> ls, ret |-> FALSE])

\* check_absent_people: "for name, session in list(person_sessions.items())",
\* the sessions that are due leave; after[i] is the state after the first i
CheckAbsentPeople(ps, ls, evs, batch, t, inserted) ==
    LET after[i \in 0..Len(NameOrder)] ==
            IF i = 0 THEN [ps |-> ps, ls |-> ls, events |-> evs]
            ELSE IF /\ NameOrder[i] \in DOMAIN ps
                    /\ AbsenceDue(ps[NameOrder[i]], NameOrder[i], batch, t)
              THEN With(after[i - 1],
                        LAMBDA a :
                          With(LeaveSession(ps[NameOrder[i]], a.ls, NameOrder[i], t, inserted),
                               LAMBDA r : [ps |-> [a.ps EXCEPT ![NameOrder[i]] = r.sess],
                                           ls |-> r.ls,
                                           events |-> a.events \o r.events]))
            ELSE after[i - 1]
    IN  after[Len(NameOrder)]

\* check_absent_people: "for name in sessions_to_remove: del person_sessions[name]"
RemoveOldSessions(before, after, t) ==
    LET gone == {n \in DOMAIN before : CleanupDue(before[n], t)}
    IN  [n \in DOMAIN after \ gone |-> after[n]]

\* the identities of a frame whose schedule is looked up: new sessions (from
\* batch_schedules), returning ones and present ones whose re-check is due
LookupUsed(ps, name, batch, t) ==
    /\ name \in batch
    /\ \/ name \notin DOMAIN ps
       \/ ~ps[name].is_present
       \/ RecheckDue(ps[name], t)

\* "if (now - last_absence_check).total_seconds() >= 1": the absence check and
\* the eviction that end a detection cycle, when due
AbsenceCheck(r1, last, batch, t, inserted) ==
    IF t - last >= ABSENCE_CHECK_PERIOD
      THEN With(CheckAbsentPeople(r1.ps, r1.ls, r1.events, batch, t, inserted),
                LAMBDA r2 : [ps |-> RemoveOldSessions(r1.ps, r2.ps, t), ls |-> r2.ls,
                             events |-> r2.events, last_absence_check |-> t])
      ELSE [ps |-> r1.ps, ls |-> r1.ls, events |-> r1.events, last_absence_check |-> last]

\* one iteration of the detection loop that got a frame
DetectionCycle(ps, ls, last, batch, lookup, t, inserted) ==
    AbsenceCheck(ProcessFaces(ps, ls, batch, lookup, t, inserted), last, batch, t, inserted)

InitSession ==
    /\ now = 0
    /\ ticks = 0
    /\ person_sessions = <<>>
    /\ last_absence_check = 0
    /\ detected = {}
    /\ events = <<>>
    /\ frame_faces = <<>>
    /\ looked_up = {}
    /\ latest_detection_result = [faces |-> <<>>, events |-> <<>>]

\* the clock steps the model takes: a second, the absence timeout (more than the
\* re-check interval), and the cleanup timeout
TickSteps == {1, ABSENCE_TIMEOUT_SECONDS, SESSION_CLEANUP_TIMEOUT}

(* time passes *)
Tick ==
    /\ ticks < MaxTicks
    /\ \E d \in TickSteps : now' = now + d
    /\ ticks' = ticks + 1
    /\ UNCHANGED <<person_sessions, last_absence_check, detected, events>>
    /\ UNCHANGED <<frameVars, logVars, publishVars, reloadVars, moreVars>>

(* the video sender hands a frame over to the waiting detection thread (the *)
(* hand-off with frames already waiting is SpecFrame's)                     *)
S_FrameArrives ==
    /\ frame_queue = <<>>
    /\ frame_queue' = QueuePut(frame_queue, 0)
    /\ UNCHANGED <<stdin, nextFrame, vs_pc, vs_latest, vs_iter, handed, taken, handedAtTake>>
    /\ UNCHANGED <<logVars, sessionVars, publishVars, reloadVars, moreVars>>

\* CONF_THRESHOLD = 0.45, scores in hundredths
CONF_THRESHOLD == 45

\* best scores below, at and above the threshold
Scores == {44, 45, 46}

\* faces app.get finds in one frame
MaxFaces == 1

\* np.argmax(all_similarities, axis=0) for one face: the first row of the best score
ArgMax(col) ==
    CHOOSE i \in DOMAIN col :
        /\ \A j \in DOMAIN col : col[j] <= col[i]
        /\ \A j \in DOMAIN col : j < i => col[j] < col[i]

BestScore(col) == col[ArgMax(col)]

\* "high_confidence_mask = best_scores > CONF_THRESHOLD"
HighConfidence_atThreshold(col) == BestScore(col) >= CONF_THRESHOLD
HighConfidence(col) == BestScore(col) > CONF_THRESHOLD

\* "name = known_names[best_indices[face_idx]]"
FaceName(col, names) == names[ArgMax(col)]

\* the faces of a frame that pass "len(faces) > 0 and len(known_embeddings) > 0"
\* and the mask
Accepted(faces, names) ==
    IF names = <<>> THEN <<>> ELSE SelectSeq(faces, HighConfidence)

\* currently_detected_names
RecognisedNames(faces, names) ==
    {FaceName(Accepted(faces, names)[i], names) : i \in DOMAIN Accepted(faces, names)}

\* "detections.append({...})" for each accepted face with a session
Detections(faces, names, ps) ==
    LET kept == SelectSeq(Accepted(faces, names),
                          LAMBDA col : FaceName(col, names) \in DOMAIN ps)
    IN  [i \in DOMAIN kept |->
            LET name == FaceName(kept[i], names)
            IN  [name |-> name, score |-> BestScore(kept[i]),
                 has_schedule |-> ps[name].schedule.found,
                 is_valid_schedule |-> ps[name].schedule.found
                                       /\ ps[name].schedule.isValidSchedule]]

\* what a frame can show: up to MaxFaces faces, each with its similarities to the
\* rows of known_embeddings
FramesOf(names) ==
    UNION {[1..n -> [DOMAIN names -> Scores]] : n \in 0..MaxFaces}

\* the frames in which every face is recognised
RecognisedFramesOf(names) ==
    {f \in FramesOf(names) : \A i \in DOMAIN f : HighConfidence(f[i])}

(* face_detection_thread: one iteration that got a frame: matching, the session *)
(* handling of each recognised face, the absence check when due, and the        *)
(* publication of the result                                                    *)
DetectFrame(Frames) ==
    /\ frame_queue # <<>>
    /\ frame_queue' = QueueAfterGet(frame_queue)
    /\ \E faces \in Frames, lookup \in [SessionNames -> ScheduleResults],
          inserted \in BOOLEAN :
        LET batch == RecognisedNames(faces, known_names)
        IN
        /\ \A n \in SessionNames :
              ~LookupUsed(person_sessions, n, batch, now) => lookup[n] = NoSchedule
        /\ \E r2 \in {DetectionCycle(person_sessions, LogState, last_absence_check, batch,
                                      lookup, now, inserted)} :
               /\ person_sessions' = r2.ps
               /\ attendance_logs_queue' = r2.ls.q
               /\ next_log_id' = r2.ls.next_id
               /\ accepted' = r2.ls.accepted
               /\ since' = r2.ls.since
               /\ last_absence_check' = r2.last_absence_check
               /\ detected' = batch
               /\ events' = r2.events
               /\ frame_faces' = faces
               /\ looked_up' = {n \in SessionNames : LookupUsed(person_sessions, n, batch, now)}
               /\ latest_detection_result' =
                      [faces |-> Detections(faces, known_names, r2.ps),
                       events |-> r2.events]
    /\ UNCHANGED <<now, ticks>>
    /\ UNCHANGED <<OFFLINE_MODE, net, week_old, insert_done, calls, lg_pc, lg_call,
                   lg_log_id, lg_ret, sy_pc, sy_batch, sy_i, sy_failed>>
    /\ UNCHANGED <<stdin, nextFrame, vs_pc, vs_latest, vs_iter, handed, taken, handedAtTake>>
    /\ UNCHANGED <<reloadVars, moreVars>>

(* the iteration on a frame whose faces, if any, are all recognised *)
D_Process == DetectFrame(RecognisedFramesOf(known_names))

(* face_detection_thread: frame_queue.get times out: "except Empty: continue" *)
D_Empty ==
    /\ frame_queue = <<>>
    /\ UNCHANGED vars

NextSession ==
    \/ Tick
    \/ S_FrameArrives
    \/ D_Process
    \/ D_Empty

-----------------------------------------------------------------------------
(* The face database: load_embeddings, reload_embeddings_if_needed and the *)
(* matching step of face_detection_thread                                   *)

\* DATASET_DIR does not exist
MissingDir == [exists |-> FALSE, files |-> <<>>]
\* DATASET_DIR with its image files in walk order
Dir(files) == [exists |-> TRUE, files |-> files]

\* an image file: the folder it is in, and what reading it gives: a face, a
\* picture without a face, or nothing cv2.imread can read
Images ==
    {[label |-> n, kind |-> "face"] : n \in Names}
        \cup {[label |-> "Ana_Cruz", kind |-> k] : k \in {"noface", "unreadable"}}

\* the directory after one file-system event: the directory is removed or
\* created, an image file is created or deleted (a modified image is a deleted
\* and a created one)
RemoveAt(f, i) == [j \in 1..(Len(f) - 1) |-> IF j < i THEN f[j] ELSE f[j + 1]]
OneEventLater(d) ==
    IF ~d.exists THEN {Dir(<<>>)}
    ELSE {MissingDir}
            \cup {Dir(Append(d.files, img)) : img \in {x \in Images : Len(d.files) < MaxImages}}
            \cup {Dir(RemoveAt(d.files, i)) : i \in DOMAIN d.files}

\* the directory the start-up load can have found: a single enrolled face
StartDatasets == {Dir(<<[label |-> n, kind |-> "face"]>>) : n \in Names}

\* "img = cv2.imread(...); if img is not None: all_images.append(...)"
ReadableImages(d) == SelectSeq(d, LAMBDA img : img.kind # "unreadable")

\* "faces = app.get(img); if len(faces) == 0: continue"
FaceImages(imgs) == SelectSeq(imgs, LAMBDA img : img.kind = "face")

\* "emb = faces[0].embedding; emb = emb / norm(emb)": the embedding of a face image,
\* which is that of the person in the picture
Embedding(img) == [of |-> img.label]

\* temp_embeddings and temp_names after the walk over all_images
TempEmbeddings(imgs) == [i \in DOMAIN FaceImages(imgs) |-> Embedding(FaceImages(imgs)[i])]
TempNames(imgs) == [i \in DOMAIN FaceImages(imgs) |-> FaceImages(imgs)[i].label]

\* "if not all_images" and "if not temp_embeddings" without their "return False"
NothingFound_ignored(xs) == FALSE
\* "if not all_images: return False", "if not temp_embeddings: return False"
NothingFound(xs) == xs = <<>>

\* an acquire that does not wait for the lock
CanAcquire_unlocked(lock) == TRUE
\* "with embeddings_lock:" blocks until nobody holds the lock
CanAcquire(lock) == lock = "free"

\* the live pair
Live == <<known_embeddings, known_names>>

\* the set() calls counted up to MaxPending ("MaxPending or more")
MaxPending == 2
NoChanges == [pending |-> 0, answered |-> 0]

\* the start-up load (the program exits when it fails) has found a face
InitReload ==
    /\ dataset \in StartDatasets
    /\ reload_requested = FALSE
    /\ change_events = NoChanges
    /\ known_embeddings = TempEmbeddings(ReadableImages(dataset.files))
    /\ known_names = TempNames(ReadableImages(dataset.files))
    /\ embeddings_lock = "free"
    /\ ld_pc = "idle"
    /\ all_images = <<>>
    /\ temp_embeddings = <<>>
    /\ temp_names = <<>>
    /\ ld_ret = <<TRUE>>
    /\ ld_pre = <<known_embeddings, known_names>>
    /\ rd_pc = "idle"
    /\ rd_embeddings = <<>>
    /\ rd_names = <<>>

(* somebody changes the faces directory; FaceDatasetWatcher sets the flag for *)
(* an image event that passes its debounce                                     *)
DatasetChange ==
    /\ \E d \in OneEventLater(dataset) : dataset' = d
    /\ \E notified \in BOOLEAN :
          /\ reload_requested' = (reload_requested \/ notified)
          /\ change_events' = IF notified
                                THEN [change_events EXCEPT
                                        !.pending = Min(@ + 1, MaxPending)]
                                ELSE change_events
    /\ UNCHANGED <<known_embeddings, known_names, embeddings_lock, ld_pc, all_images,
                   temp_embeddings, temp_names, ld_ret, ld_pre, rd_pc, rd_embeddings,
                   rd_names>>
    /\ UNCHANGED nonReloadVars

(* reload_embeddings_if_needed with the flag clear: "return False" *)
L_NoRequest ==
    /\ ld_pc = "idle"
    /\ ~reload_requested
    /\ UNCHANGED vars

(* reload_embeddings_if_needed without its reload_requested.clear() *)
L_Start_noClear ==
    /\ ld_pc = "idle"
    /\ reload_requested
    /\ change_events' = [change_events EXCEPT !.answered = change_events.pending]
    /\ ld_pc' = "exists"
    /\ ld_ret' = <<>>
    /\ ld_pre' = Live
    /\ UNCHANGED <<dataset, reload_requested, known_embeddings, known_names, embeddings_lock, all_images,
                   temp_embeddings, temp_names, rd_pc, rd_embeddings, rd_names>>
    /\ UNCHANGED nonReloadVars

(* reload_embeddings_if_needed: the flag is set: clear it, call load_embeddings *)
L_Start ==
    /\ ld_pc = "idle"
    /\ reload_requested
    /\ reload_requested' = FALSE
    /\ change_events' = [pending |-> 0, answered |-> change_events.pending]
    /\ ld_pc' = "exists"
    /\ ld_ret' = <<>>
    /\ ld_pre' = Live
    /\ UNCHANGED <<dataset, known_embeddings, known_names, embeddings_lock, all_images,
                   temp_embeddings, temp_names, rd_pc, rd_embeddings, rd_names>>
    /\ UNCHANGED nonReloadVars

(* load_embeddings: "if not DATASET_DIR.exists(): return False" *)
L_Exists ==
    /\ ld_pc = "exists"
    /\ IF ~dataset.exists
         THEN ld_pc' = "idle" /\ ld_ret' = <<FALSE>>
         ELSE ld_pc' = "collect" /\ UNCHANGED ld_ret
    /\ UNCHANGED <<dataset, reload_requested, change_events, known_embeddings, known_names, embeddings_lock,
                   all_images, temp_embeddings, temp_names, ld_pre, rd_pc, rd_embeddings,
                   rd_names>>
    /\ UNCHANGED nonReloadVars

(* load_embeddings: collect the readable images; iterdir raises when the *)
(* directory has gone meanwhile, which ends the main thread; the locals  *)
(* end with the call                                                      *)
L_Collect ==
    /\ ld_pc = "collect"
    /\ IF ~dataset.exists
         THEN ld_pc' = "raised" /\ UNCHANGED <<all_images, ld_ret>>
         ELSE IF NothingFound(ReadableImages(dataset.files))
           THEN ld_pc' = "idle" /\ ld_ret' = <<FALSE>> /\ UNCHANGED all_images
           ELSE /\ all_images' = ReadableImages(dataset.files)
                /\ ld_pc' = "process"
                /\ UNCHANGED ld_ret
    /\ UNCHANGED <<dataset, reload_requested, change_events, known_embeddings, known_names, embeddings_lock,
                   temp_embeddings, temp_names, ld_pre, rd_pc, rd_embeddings, rd_names>>
    /\ UNCHANGED nonReloadVars

(* load_embeddings: the walk over all_images into temp_embeddings / temp_names *)
L_Process ==
    /\ ld_pc = "process"
    /\ IF NothingFound(TempEmbeddings(all_images))
         THEN /\ ld_pc' = "idle"
              /\ ld_ret' = <<FALSE>>
              /\ all_images' = <<>>
              /\ UNCHANGED <<temp_embeddings, temp_names>>
         ELSE /\ temp_embeddings' = TempEmbeddings(all_images)
              /\ temp_names' = TempNames(all_images)
              /\ ld_pc' = "acquire"
              /\ UNCHANGED <<all_images, ld_ret>>
    /\ UNCHANGED <<dataset, reload_requested, change_events, known_embeddings, known_names, embeddings_lock,
                   ld_pre, rd_pc, rd_embeddings, rd_names>>
    /\ UNCHANGED nonReloadVars

(* load_embeddings: "with embeddings_lock:" *)
L_Acquire ==
    /\ ld_pc = "acquire"
    /\ CanAcquire(embeddings_lock)
    /\ embeddings_lock' = "main"
    /\ ld_pc' = "swap_embeddings"
    /\ UNCHANGED <<dataset, reload_requested, change_events, known_embeddings, known_names, all_images,
                   temp_embeddings, temp_names, ld_ret, ld_pre, rd_pc, rd_embeddings,
                   rd_names>>
    /\ UNCHANGED nonReloadVars

(* load_embeddings: "known_embeddings = np.array(temp_embeddings, ...)" *)
L_SwapEmbeddings ==
    /\ ld_pc = "swap_embeddings"
    /\ known_embeddings' = temp_embeddings
    /\ ld_pc' = "swap_names"
    /\ UNCHANGED <<dataset, reload_requested, change_events, known_names, embeddings_lock, all_images,
                   temp_embeddings, temp_names, ld_ret, ld_pre, rd_pc, rd_embeddings,
                   rd_names>>
    /\ UNCHANGED nonReloadVars

(* load_embeddings: "known_names = temp_names" *)
L_SwapNames ==
    /\ ld_pc = "swap_names"
    /\ known_names' = temp_names
    /\ ld_pc' = "release"
    /\ UNCHANGED <<dataset, reload_requested, change_events, known_embeddings, embeddings_lock, all_images,
                   temp_embeddings, temp_names, ld_ret, ld_pre, rd_pc, rd_embeddings,
                   rd_names>>
    /\ UNCHANGED nonReloadVars

(* load_embeddings: the with block ends, "return True"; the locals end with the call *)
L_Release ==
    /\ ld_pc = "release"
    /\ embeddings_lock' = "free"
    /\ ld_pc' = "idle"
    /\ ld_ret' = <<TRUE>>
    /\ all_images' = <<>>
    /\ temp_embeddings' = <<>>
    /\ temp_names' = <<>>
    /\ ld_pre' = Live
    /\ UNCHANGED <<dataset, reload_requested, change_events, known_embeddings, known_names, rd_pc,
                   rd_embeddings, rd_names>>
    /\ UNCHANGED nonReloadVars

(* face_detection_thread: "with embeddings_lock:" for a frame *)
R_Acquire ==
    /\ rd_pc = "idle"
    /\ CanAcquire(embeddings_lock)
    /\ embeddings_lock' = "detect"
    /\ rd_pc' = "locked"
    /\ UNCHANGED <<dataset, reload_requested, change_events, known_embeddings, known_names, ld_pc,
                   all_images, temp_embeddings, temp_names, ld_ret, ld_pre, rd_embeddings,
                   rd_names>>
    /\ UNCHANGED nonReloadVars

(* face_detection_thread: "if len(faces) > 0 and len(known_embeddings) > 0:" and *)
(* "np.dot(known_embeddings, ...)"; a frame without faces goes to the release.    *)
(* (np.ascontiguousarray before it stores the same rows back.)                    *)
R_Dot ==
    /\ rd_pc = "locked"
    /\ \E faces \in BOOLEAN :
         IF faces /\ Len(known_embeddings) > 0
           THEN rd_embeddings' = known_embeddings /\ rd_pc' = "dotted"
           ELSE UNCHANGED rd_embeddings /\ rd_pc' = "done"
    /\ UNCHANGED <<dataset, reload_requested, change_events, known_embeddings, known_names, embeddings_lock,
                   ld_pc, all_images, temp_embeddings, temp_names, ld_ret, ld_pre, rd_names>>
    /\ UNCHANGED nonReloadVars

(* face_detection_thread: "name = known_names[best_indices[face_idx]]" *)
R_Name ==
    /\ rd_pc = "dotted"
    /\ rd_names' = known_names
    /\ rd_pc' = "matched"
    /\ UNCHANGED <<dataset, reload_requested, change_events, known_embeddings, known_names, embeddings_lock,
                   ld_pc, all_images, temp_embeddings, temp_names, ld_ret, ld_pre,
                   rd_embeddings>>
    /\ UNCHANGED nonReloadVars

(* face_detection_thread: the with block ends *)
R_Release ==
    /\ rd_pc \in {"matched", "done"}
    /\ embeddings_lock' = "free"
    /\ rd_pc' = "idle"
    /\ rd_embeddings' = <<>>
    /\ rd_names' = <<>>
    /\ UNCHANGED <<dataset, reload_requested, change_events, known_embeddings, known_names, ld_pc,
                   all_images, temp_embeddings, temp_names, ld_ret, ld_pre>>
    /\ UNCHANGED nonReloadVars

NextReload ==
    \/ DatasetChange
    \/ L_NoRequest
    \/ L_Start
    \/ L_Exists
    \/ L_Collect
    \/ L_Process
    \/ L_Acquire
    \/ L_SwapEmbeddings
    \/ L_SwapNames
    \/ L_Release
    \/ R_Acquire
    \/ R_Dot
    \/ R_Name
    \/ R_Release

-----------------------------------------------------------------------------
(* The schedule resolver: get_current_schedule, get_current_schedule_from_cache *)
(* and refresh_schedule_cache (recognizer_arcface.py), and the look-up of the   *)
(* local database (local_database.get_current_schedule)                         *)

\* None where a schedule dict is expected
NoneSchedule == [none |-> TRUE]

\* room names, character by character
Lab1 == <<"L", "a", "b", " ", "1">>
Lab2 == <<"L", "a", "b", " ", "2">>
Lab10 == <<"L", "a", "b", " ", "1", "0">>
Lab1Padded == <<"l", "a", "b", " ", "1", " ">>
NoRoom == <<>>

Rooms == {Lab1, Lab2, Lab10, Lab1Padded, NoRoom}

CameraIds == {"camera1", "camera2"}

\* ROOM_MAPPING.get(camera_id, "")
ROOM_MAPPING(camera_id) ==
    IF camera_id = "camera1" THEN Lab1 ELSE IF camera_id = "camera2" THEN Lab2 ELSE NoRoom

\* str.lower()
Lower(s) == [i \in 1..Len(s) |-> IF s[i] = "L" THEN "l" ELSE s[i]]

\* str.strip()
StripSpaces(s) ==
    LET idx == {i \in 1..Len(s) : s[i] # " "}
    IN  IF idx = {} THEN <<>>
        ELSE SubSeq(s, CHOOSE i \in idx : \A j \in idx : i <= j,
                       CHOOSE i \in idx : \A j \in idx : i >= j)

\* Python's "needle in hay" on strings
Contains(hay, needle) ==
    \E i \in 0..(Len(hay) - Len(needle)) : SubSeq(hay, i + 1, i + Len(needle)) = needle

\* two room names name the same room
SameRoom(a, b) == StripSpaces(Lower(a)) = StripSpaces(Lower(b))

\* folder names of the faces directory, split at "_"
AnaCruz == <<"Ana", "Cruz">>
AnaMariaCruz == <<"Ana", "Maria", "Cruz">>
ResolveNames == {AnaCruz, AnaMariaCruz}

\* format_instructor_name: 'First_Middle_Last' -> 'Last, First'
FormatInstructorName(parts) ==
    IF Len(parts) >= 2 THEN <<parts[Len(parts)], parts[1]>> ELSE parts

\* minutes of a day
DayMinutes == 1440
LATE_THRESHOLD_MINUTES == 15
EARLY_MINUTES == 30

\* a schedule as the stores hold it: startTime and endTime in minutes after
\* midnight, today = the semester holds today and days[current_day] is set
StoredSchedule(id, room, startTime, endTime, today) ==
    [id |-> id, room |-> room, startTime |-> startTime, endTime |-> endTime,
     today |-> today]

\* 08:00-09:00 classes in each room, one not held today, one starting at 00:10
\* and one starting at 23:45
MorningClasses == {StoredSchedule("s1", r, 480, 540, TRUE) : r \in Rooms}
StoredSchedules ==
    MorningClasses \cup {StoredSchedule("s2", Lab1, 480, 540, FALSE),
                         StoredSchedule("s3", Lab2, 10, 60, TRUE),
                         StoredSchedule("s4", Lab1, 1425, 1439, TRUE)}

\* the clock readings of a call: before the 30 minutes, inside them, in class and
\* late, after the class, and shortly before midnight
ClockReadings == {440, 455, 500, 600, 1430}

\* "time_before_class <= current_time <= end_time", with the branch for a
\* 30-minute buffer that crosses midnight
TimeMatches(startTime, endTime, current_time) ==
    LET time_before_class == (startTime - EARLY_MINUTES + DayMinutes) % DayMinutes
    IN  IF time_before_class > startTime
        THEN current_time >= time_before_class \/ current_time <= endTime
        ELSE time_before_class <= current_time /\ current_time <= endTime

\* "is_late = current_time > late_threshold_time"
IsLate(startTime, current_time) ==
    current_time > (startTime + LATE_THRESHOLD_MINUTES) % DayMinutes

\* the schedule dict a look-up returns
Resolved(s, is_late, valid, roomMatch) ==
    [id |-> s.id, room |-> s.room, is_late |-> is_late, isValidSchedule |-> valid,
     roomMatch |-> roomMatch]

\* the first schedule of a list that passes a test, None without one
FirstThat(list, Test(_)) ==
    LET idx == {i \in 1..Len(list) : Test(list[i])}
    IN  IF idx = {} THEN NoneSchedule ELSE list[CHOOSE i \in idx : \A j \in idx : i <= j]

\* get_current_schedule_from_cache
GetCurrentScheduleFromCache(cache, instructor_name, current_time) ==
    LET formatted_name == FormatInstructorName(instructor_name)
        instructor_schedules ==
            IF formatted_name \in DOMAIN cache THEN cache[formatted_name] ELSE <<>>
        Current(s) == s.today /\ TimeMatches(s.startTime, s.endTime, current_time)
        hit == FirstThat(instructor_schedules, Current)
    IN  IF hit = NoneSchedule THEN NoneSchedule
        ELSE IF ~ValidScheduleId(hit.id) THEN NoneSchedule
        ELSE Resolved(hit, IsLate(hit.startTime, current_time), TRUE, "None")

\* "schedule = get_current_schedule_from_cache(...); if schedule:
\*  schedule['isValidSchedule'] = True; schedule['roomMatch'] = None"
CacheFallback_none(cache, instructor_name, current_time) == NoneSchedule
CacheFallback(cache, instructor_name, current_time) ==
    LET schedule == GetCurrentScheduleFromCache(cache, instructor_name, current_time)
    IN  IF schedule # NoneSchedule
        THEN [schedule EXCEPT !.isValidSchedule = TRUE, !.roomMatch = "None"]
        ELSE NoneSchedule

\* the answer of POST /get-current-schedule (the server is not part of src/; by
\* lines 691-704 it validates time and room and sets isValidSchedule and roomMatch)
BackendAnswer(store, formatted_name, room_name, current_time) ==
    LET list == IF formatted_name \in DOMAIN store THEN store[formatted_name] ELSE <<>>
        InTime(s) == TimeMatches(s.startTime, s.endTime, current_time)
        hit == FirstThat(list, InTime)
    IN  [schedule |-> hit,
         isValidSchedule |-> hit # NoneSchedule /\ SameRoom(hit.room, room_name),
         roomMatch |-> IF hit # NoneSchedule /\ SameRoom(hit.room, room_name)
                       THEN "True" ELSE "False"]

\* get_current_schedule, status 200: what it returns for the answer data
FromResponse(data, current_time) ==
    LET schedule == data.schedule
    IN  IF schedule = NoneSchedule THEN NoneSchedule
        ELSE IF ~schedule.today THEN NoneSchedule
        ELSE IF ~ValidScheduleId(schedule.id) THEN NoneSchedule
        ELSE Resolved(schedule, IsLate(schedule.startTime, current_time),
                      data.isValidSchedule, data.roomMatch)

\* a room_match by equality alone
LocalRoomMatch_exact(schedule_room, room_name) ==
    room_name = <<>> \/ StripSpaces(Lower(schedule_room)) = StripSpaces(Lower(room_name))
\* local_database.get_current_schedule: room_match by equality or containment
LocalRoomMatch(schedule_room, room_name) ==
    LET a == StripSpaces(Lower(schedule_room))
        b == StripSpaces(Lower(room_name))
    IN  IF room_name = <<>> THEN TRUE
        ELSE a = b \/ Contains(b, a) \/ Contains(a, b)

LocalGetCurrentSchedule(rows, room_name, current_time) ==
    LET Current(s) == /\ s.today
                      /\ s.startTime - EARLY_MINUTES <= current_time
                      /\ current_time <= s.endTime
        hit == FirstThat(rows, Current)
    IN  IF hit = NoneSchedule THEN NoneSchedule
        ELSE Resolved(hit, FALSE, LocalRoomMatch(hit.room, room_name),
                      IF room_name = <<>> THEN "None"
                      ELSE IF LocalRoomMatch(hit.room, room_name) THEN "True" ELSE "False")

\* what the remote store holds: nothing, or one schedule of one instructor
CruzAna == <<"Cruz", "Ana">>
StoreStates ==
    {<<>>} \cup {(CruzAna :> <<s>>) : s \in StoredSchedules}
           \cup {(CruzAna :> <<StoredSchedule("N/A", Lab1, 480, 540, TRUE)>>)}

\* "max_retries = 2"
MAX_RETRIES == 2

\* what requests.post can raise, with whether the message holds one of the
\* internet_error_keywords
Exceptions ==
    {[type |-> "ConnectionError", keyword |-> FALSE],
     [type |-> "Timeout", keyword |-> FALSE],
     [type |-> "OSError", keyword |-> FALSE],
     [type |-> "OSError", keyword |-> TRUE],
     [type |-> "RequestException", keyword |-> FALSE],
     [type |-> "ValueError", keyword |-> FALSE]}

\* is_internet_connection_error
IsInternetConnectionError(e) == e.type \in {"ConnectionError", "Timeout"} \/ e.keyword

\* the except clause of get_current_schedule that takes an exception of the post:
\* the two of the retry loop, then the two of the function
HandlerOf(e) ==
    IF e.type \in {"ConnectionError", "Timeout", "OSError"} THEN "retry_loop_connection"
    ELSE IF e.type = "RequestException" THEN "retry_loop_request"
    ELSE "catch_all"

NoCall_rs == [name |-> <<>>, camera_id |-> "", room_name |-> <<>>, now |-> 0]

InitResolve ==
    /\ schedule_cache = <<>>
    /\ remote_store \in StoreStates
    /\ rs_pc = "idle"
    /\ rs_call = NoCall_rs
    /\ rs_attempt = 0
    /\ rs_requests = 0
    /\ rs_hit = FALSE
    /\ rs_data = NoneSchedule
    /\ rs_ret = <<>>
    /\ rs_path = ""

\* "return schedule" / "return None" of a call
RS_Return(value, path) ==
    /\ rs_pc' = "idle"
    /\ rs_ret' = <<value>>
    /\ rs_path' = path
    /\ rs_data' = NoneSchedule

\* the cache fallback of the call under way
RS_Fallback(path) ==
    RS_Return(CacheFallback(schedule_cache, rs_call.name, rs_call.now), path)

(* get_current_schedule(name, camera_id) is called; room_name from ROOM_MAPPING *)
RS_Call ==
    /\ rs_pc = "idle"
    /\ \E name \in ResolveNames, camera_id \in CameraIds, t \in ClockReadings :
         /\ rs_call' = [name |-> name, camera_id |-> camera_id,
                        room_name |-> ROOM_MAPPING(camera_id), now |-> t]
         /\ rs_hit' = (GetCurrentScheduleFromCache(schedule_cache, name, t) # NoneSchedule)
    /\ rs_pc' = IF OFFLINE_MODE THEN "offline" ELSE "precheck"
    /\ rs_attempt' = 0
    /\ rs_requests' = 0
    /\ rs_ret' = <<>>
    /\ rs_path' = ""
    /\ UNCHANGED <<schedule_cache, remote_store, rs_data>>
    /\ UNCHANGED nonResolveVars

(* "if OFFLINE_MODE:" the cache, with isValidSchedule = True *)
RS_Offline ==
    /\ rs_pc = "offline"
    /\ RS_Fallback("offline")
    /\ UNCHANGED <<schedule_cache, remote_store, rs_call, rs_attempt, rs_requests, rs_hit>>
    /\ UNCHANGED nonResolveVars

(* "if not check_internet_connectivity():" the cache; else on to the request *)
RS_Precheck ==
    /\ rs_pc = "precheck"
    /\ \E up \in BOOLEAN :
         IF up THEN /\ rs_pc' = "post"
                    /\ UNCHANGED <<rs_ret, rs_path, rs_data>>
         ELSE RS_Fallback("no_internet")
    /\ UNCHANGED <<schedule_cache, remote_store, rs_call, rs_attempt, rs_requests, rs_hit>>
    /\ UNCHANGED nonResolveVars

(* one pass of "for attempt in range(max_retries + 1)": requests.post answers *)
RS_PostAnswered ==
    /\ rs_pc = "post"
    /\ rs_requests' = rs_requests + 1
    /\ \E status \in {"200", "other"} :
         IF status = "200"
         THEN /\ rs_pc' = "response"
              /\ rs_data' = BackendAnswer(remote_store, FormatInstructorName(rs_call.name),
                                          rs_call.room_name, rs_call.now)
              /\ UNCHANGED <<rs_ret, rs_path>>
         ELSE RS_Return(NoneSchedule, "status")
    /\ UNCHANGED <<schedule_cache, remote_store, rs_call, rs_attempt, rs_hit>>
    /\ UNCHANGED nonResolveVars

(* one pass of the retry loop: requests.post raises *)
RS_PostRaised ==
    /\ rs_pc = "post"
    /\ rs_requests' = rs_requests + 1
    /\ \E e \in Exceptions :
         IF HandlerOf(e) = "retry_loop_connection"
         THEN IF IsInternetConnectionError(e)
              THEN RS_Fallback("internet_error") /\ UNCHANGED rs_attempt
              ELSE IF rs_attempt < MAX_RETRIES
              THEN /\ rs_attempt' = rs_attempt + 1
                   /\ UNCHANGED <<rs_pc, rs_ret, rs_path, rs_data>>
              ELSE RS_Fallback("retries_exhausted") /\ UNCHANGED rs_attempt
         ELSE IF HandlerOf(e) = "retry_loop_request"
         THEN RS_Fallback("request_error") /\ UNCHANGED rs_attempt
         ELSE IF HandlerOf(e) = "catch_all"
         THEN RS_Fallback("unexpected") /\ UNCHANGED rs_attempt
         ELSE /\ rs_pc' = "raised"
              /\ UNCHANGED <<rs_attempt, rs_ret, rs_path, rs_data>>
    /\ UNCHANGED <<schedule_cache, remote_store, rs_call, rs_hit>>
    /\ UNCHANGED nonResolveVars

(* "if response.status_code == 200:" response.json() and the checks of the answer; *)
(* a body that is not JSON raises into the handlers of the function                *)
RS_Response ==
    /\ rs_pc = "response"
    /\ \E parsed \in BOOLEAN :
         IF parsed THEN RS_Return(FromResponse(rs_data, rs_call.now), "remote")
         ELSE RS_Fallback("exception")
    /\ UNCHANGED <<schedule_cache, remote_store, rs_call, rs_attempt, rs_requests, rs_hit>>
    /\ UNCHANGED nonResolveVars

\* the room_name a caller of local_database.get_current_schedule passes: none, a
\* blank one, or the room of a camera
LocalRoomArgs == {NoRoom, <<" ">>, Lab1, Lab2}

(* local_database.get_current_schedule(name, room_name) on the rows synced from *)
(* the store                                                                    *)
RS_LocalLookup ==
    /\ rs_pc = "idle"
    /\ \E name \in ResolveNames, room_name \in LocalRoomArgs, t \in ClockReadings :
         LET key == FormatInstructorName(name)
             rows == IF key \in DOMAIN remote_store THEN remote_store[key] ELSE <<>>
         IN  /\ rs_call' = [name |-> name, camera_id |-> "",
                            room_name |-> room_name, now |-> t]
             /\ rs_ret' = <<LocalGetCurrentSchedule(rows, room_name, t)>>
    /\ rs_path' = "local_db"
    /\ rs_hit' = FALSE
    /\ rs_attempt' = 0
    /\ rs_requests' = 0
    /\ UNCHANGED <<schedule_cache, remote_store, rs_pc, rs_data>>
    /\ UNCHANGED nonResolveVars

\* the rows refresh_schedule_cache keeps: those with a usable _id
Cacheable(list) == SelectSeq(list, LAMBDA s : ValidScheduleId(s.id))

(* refresh_schedule_cache: the bulk fetch replaces the cache; without a 200 *)
(* answer the cache stays                                                   *)
RS_Refresh ==
    /\ ~OFFLINE_MODE
    /\ \E fetched \in BOOLEAN :
         schedule_cache' =
            IF fetched
            THEN LET keys == {k \in DOMAIN remote_store : Cacheable(remote_store[k]) # <<>>}
                 IN  [k \in keys |-> Cacheable(remote_store[k])]
            ELSE schedule_cache
    /\ UNCHANGED <<remote_store, rs_pc, rs_call, rs_attempt, rs_requests, rs_hit, rs_data,
                   rs_ret, rs_path>>
    /\ UNCHANGED nonResolveVars

NextResolve ==
    \/ RS_Call
    \/ RS_Offline
    \/ RS_Precheck
    \/ RS_PostAnswered
    \/ RS_PostRaised
    \/ RS_Response
    \/ RS_LocalLookup
    \/ RS_Refresh

-----------------------------------------------------------------------------
(* output_thread: the emission stage *)

\* last_sent_signature = None
NoSignature == <<>>

\* "tuple(sorted([f.get('name', '') for f in faces]))", compared for equality only:
\* how often each name occurs
SortedNames(faces) ==
    LET names == {faces[i].name : i \in DOMAIN faces}
    IN  [n \in names |-> Cardinality({i \in DOMAIN faces : faces[i].name = n})]

\* "current_signature = (face_count, face_names)"
Signature(result) == <<Len(result.faces), SortedNames(result.faces)>>

\* "if data_changed or has_events or last_sent_signature is None"
ShouldSend_always(current_signature, last, has_events) == TRUE
ShouldSend(current_signature, last, has_events) ==
    current_signature # last \/ has_events \/ last = NoSignature

\* the 'time in' and 'late' events of an events list
TimeInEvents(evs) == SelectSeq(evs, LAMBDA e : e[1] \in {"time in", "late"})

InitOutput ==
    /\ last_sent_signature = NoSignature
    /\ out_pc = "sleep"
    /\ out_tick = FALSE
    /\ out_wrote = FALSE
    /\ out_last = [faces |-> <<>>, events |-> <<>>]
    /\ emitted_time_in = 0
    /\ submitted = <<>>

(* one tick: the copy of latest_detection_result under detection_lock, the *)
(* comparison and the print                                                *)
O_Tick ==
    /\ out_pc = "sleep"
    /\ out_tick' = ~out_tick
    /\ LET result == latest_detection_result
           has_events == Len(result.events) > 0
       IN  IF ShouldSend(Signature(result), last_sent_signature, has_events)
           THEN /\ out_last' = result
                /\ out_wrote' = TRUE
                /\ last_sent_signature' = Signature(result)
                /\ emitted_time_in' = emitted_time_in + Len(TimeInEvents(result.events))
                /\ out_pc' = IF has_events THEN "clear" ELSE "sleep"
           ELSE /\ out_wrote' = FALSE
                /\ UNCHANGED <<out_last, last_sent_signature, emitted_time_in, out_pc>>
    /\ UNCHANGED <<frameVars, logVars, sessionVars, publishVars, reloadVars, resolveVars,
                   pipeVars, streamVars, matchVars, lateVars>>

(* "if has_events: with detection_lock: latest_detection_result['events'] = []" *)
O_Clear ==
    /\ out_pc = "clear"
    /\ latest_detection_result' = [latest_detection_result EXCEPT !.events = <<>>]
    /\ out_pc' = "sleep"
    /\ UNCHANGED <<last_sent_signature, out_tick, out_wrote, out_last, emitted_time_in>>
    /\ UNCHANGED <<frame_faces, looked_up>>
    /\ UNCHANGED nonOutputVars

\* frames submitted in one run of the pipeline
MaxSubmitted == 3

(* the video sender hands over a frame; what it shows is fixed here: faces below, *)
(* at or above the threshold                                                    *)
P_FrameArrives ==
    /\ Len(submitted) < MaxSubmitted
    /\ ~QueueFull(frame_queue)
    /\ \E faces \in FramesOf(known_names) : submitted' = Append(submitted, faces)
    /\ frame_queue' = QueuePut(frame_queue, Len(submitted) + 1)
    /\ UNCHANGED <<stdin, nextFrame, vs_pc, vs_latest, vs_iter, handed, taken, handedAtTake>>
    /\ UNCHANGED <<logVars, sessionVars, publishVars, reloadVars, resolveVars, outputVars>>
    /\ UNCHANGED <<streamVars, matchVars, lateVars>>

(* face_detection_thread on the oldest frame handed over *)
P_Detect ==
    DetectFrame(IF frame_queue = <<>> THEN {} ELSE {submitted[QueueGetItem(frame_queue)]})

\* the three stages on frames that arrive in quick succession (the clock stands)
NextPipe ==
    \/ P_FrameArrives
    \/ P_Detect
    \/ D_Empty
    \/ O_Tick
    \/ O_Clear

-----------------------------------------------------------------------------
(* The frame channel at the level of bytes: read_single_frame on              *)
(* sys.stdin.buffer, the loop of video_sender_thread around it, and the loops *)
(* of the other threads with the errors they catch                            *)

\* the cap of read_single_frame, "frame_len > 10 * 1024 * 1024", scaled down
MaxFrameLen == 2
\* frames the transport writes in one run
MaxSent == 3
\* errors raised per stage in one run
MaxErrors == 1

\* struct.unpack(">I", len_bytes)[0]
Unpack(len_bytes) ==
    ((len_bytes[1] * 256 + len_bytes[2]) * 256 + len_bytes[3]) * 256 + len_bytes[4]

\* struct.pack(">I", n), as the transport writes the prefix
Pack(n) ==
    <<(n \div 16777216) % 256, (n \div 65536) % 256, (n \div 256) % 256, n % 256>>

\* a frame as the transport means it: the length it announces and its payload
Frame(n, payload) == [frame_len |-> n, jpg_bytes |-> payload]

\* two well-formed frames, a frame of length 0, and one over the cap with its payload
StreamFrames ==
    {Frame(1, <<1>>), Frame(2, <<2, 2>>), Frame(0, <<>>),
     Frame(MaxFrameLen + 1, [i \in 1 .. MaxFrameLen + 1 |-> 0])}

\* the bytes of a frame on the pipe
Wire(f) == Pack(f.frame_len) \o f.jpg_bytes

\* the tests of read_single_frame on the prefix
TooLong(n) == n > MaxFrameLen

WellFormed(f) == f.frame_len # 0 /\ ~TooLong(f.frame_len)

\* latest_frame = None
NoFrame == <<>>

NoErrors == [sender |-> 0, detection |-> 0, output |-> 0]

InitStream ==
    /\ stdin_buffer = <<>>
    /\ stdin_closed = FALSE
    /\ sent = <<>>
    /\ sv_pc = "read"
    /\ frame_len = 0
    /\ latest_frame = NoFrame
    /\ sv_iter = 0
    /\ returned = <<>>
    /\ errors = NoErrors
    /\ main_pc = "running"

\* "return None" of read_single_frame inside the skip loop: break, then
\* "if latest_frame is None: time.sleep(0.01); continue", else the put
AfterNone == IF latest_frame = NoFrame THEN "sleep" ELSE "put"

(* the camera process writes one frame, prefix and payload *)
T_Write ==
    /\ main_pc = "running"
    /\ ~stdin_closed
    /\ Len(sent) < MaxSent
    /\ \E f \in StreamFrames :
         /\ sent' = Append(sent, f)
         /\ stdin_buffer' = stdin_buffer \o Wire(f)
    /\ UNCHANGED <<stdin_closed, sv_pc, frame_len, latest_frame, sv_iter, returned,
                   errors, main_pc>>
    /\ UNCHANGED <<firstVars, resolveVars, outputVars, pipeVars, matchVars, lateVars>>

(* the camera process closes its end of the pipe *)
T_Close ==
    /\ main_pc = "running"
    /\ ~stdin_closed
    /\ stdin_closed' = TRUE
    /\ UNCHANGED <<stdin_buffer, sent, sv_pc, frame_len, latest_frame, sv_iter, returned,
                   errors, main_pc>>
    /\ UNCHANGED <<firstVars, resolveVars, outputVars, pipeVars, matchVars, lateVars>>

(* read_single_frame: sys.stdin.buffer.read(4), which waits for 4 bytes or the *)
(* end of the stream, and the tests on the length                             *)
SV_ReadPrefix ==
    /\ main_pc = "running"
    /\ sv_pc = "read"
    /\ Len(stdin_buffer) >= 4 \/ stdin_closed
    /\ IF Len(stdin_buffer) < 4
         THEN /\ stdin_buffer' = <<>>
              /\ sv_pc' = AfterNone
              /\ UNCHANGED frame_len
         ELSE /\ stdin_buffer' = SubSeq(stdin_buffer, 5, Len(stdin_buffer))
              /\ frame_len' = Unpack(SubSeq(stdin_buffer, 1, 4))
              /\ sv_pc' = IF TooLong(frame_len') \/ frame_len' = 0
                            THEN AfterNone ELSE "payload"
    /\ UNCHANGED <<stdin_closed, sent, latest_frame, sv_iter, returned, errors, main_pc>>
    /\ UNCHANGED <<firstVars, resolveVars, outputVars, pipeVars, matchVars, lateVars>>

(* read_single_frame: the payload loop (one read: a chunk holds 65536 bytes); *)
(* the frame returned becomes latest_frame                                    *)
SV_ReadPayload ==
    /\ main_pc = "running"
    /\ sv_pc = "payload"
    /\ Len(stdin_buffer) >= frame_len \/ stdin_closed
    /\ IF Len(stdin_buffer) < frame_len
         THEN /\ stdin_buffer' = <<>>
              /\ sv_pc' = AfterNone
              /\ UNCHANGED <<latest_frame, sv_iter, returned>>
         ELSE /\ stdin_buffer' = SubSeq(stdin_buffer, frame_len + 1, Len(stdin_buffer))
              /\ returned' = Append(returned, SubSeq(stdin_buffer, 1, frame_len))
              /\ latest_frame' = SubSeq(stdin_buffer, 1, frame_len)
              /\ sv_iter' = sv_iter + 1
              /\ sv_pc' = "select"
    /\ UNCHANGED <<stdin_closed, sent, frame_len, errors, main_pc>>
    /\ UNCHANGED <<firstVars, resolveVars, outputVars, pipeVars, matchVars, lateVars>>

(* read_single_frame: a read raises; the bare "except: return None" *)
SV_ReadRaises ==
    /\ main_pc = "running"
    /\ sv_pc \in {"read", "payload"}
    /\ errors.sender < MaxErrors
    /\ errors' = [errors EXCEPT !.sender = @ + 1]
    /\ sv_pc' = AfterNone
    /\ UNCHANGED <<stdin_buffer, stdin_closed, sent, frame_len, latest_frame, sv_iter,
                   returned, main_pc>>
    /\ UNCHANGED <<firstVars, resolveVars, outputVars, pipeVars, matchVars, lateVars>>

(* select.select([sys.stdin.buffer], [], [], 0): data or the end of the stream *)
(* makes the pipe ready; the loop goes on while it is, max_skip times          *)
SV_Select ==
    /\ main_pc = "running"
    /\ sv_pc = "select"
    /\ sv_pc' = IF (stdin_buffer # <<>> \/ stdin_closed) /\ sv_iter < MAX_SKIP
                  THEN "read" ELSE "put"
    /\ UNCHANGED <<stdin_buffer, stdin_closed, sent, frame_len, latest_frame, sv_iter,
                   returned, errors, main_pc>>
    /\ UNCHANGED <<firstVars, resolveVars, outputVars, pipeVars, matchVars, lateVars>>

(* select.select raises (no select on a pipe handle, a closed file):         *)
(* "except Exception as e: print(...); break" leaves the thread's loop       *)
SV_SelectRaises ==
    /\ main_pc = "running"
    /\ sv_pc = "select"
    /\ errors.sender < MaxErrors
    /\ errors' = [errors EXCEPT !.sender = @ + 1]
    /\ sv_pc' = "ended"
    /\ UNCHANGED <<stdin_buffer, stdin_closed, sent, frame_len, latest_frame, sv_iter,
                   returned, main_pc>>
    /\ UNCHANGED <<firstVars, resolveVars, outputVars, pipeVars, matchVars, lateVars>>

(* "if latest_frame is None: time.sleep(0.01); continue" *)
SV_Sleep ==
    /\ main_pc = "running"
    /\ sv_pc = "sleep"
    /\ sv_pc' = "read"
    /\ sv_iter' = 0
    /\ UNCHANGED <<stdin_buffer, stdin_closed, sent, frame_len, latest_frame, returned,
                   errors, main_pc>>
    /\ UNCHANGED <<firstVars, resolveVars, outputVars, pipeVars, matchVars, lateVars>>

(* frame_queue.put_nowait(latest_frame); when full, get_nowait and put again *)
SV_Put ==
    /\ main_pc = "running"
    /\ sv_pc = "put"
    /\ frame_queue' = IF QueueFull(frame_queue)
                        THEN QueuePut(QueueAfterGet(frame_queue), latest_frame)
                        ELSE QueuePut(frame_queue, latest_frame)
    /\ sv_pc' = "read"
    /\ latest_frame' = NoFrame
    /\ sv_iter' = 0
    /\ UNCHANGED <<stdin_buffer, stdin_closed, sent, frame_len, returned, errors, main_pc>>
    /\ UNCHANGED <<stdin, nextFrame, vs_pc, vs_latest, vs_iter, handed, taken, handedAtTake>>
    /\ UNCHANGED <<logVars, sessionVars, publishVars, reloadVars>>
    /\ UNCHANGED <<resolveVars, outputVars, pipeVars, matchVars, lateVars>>

(* face_detection_thread on a frame of the stream; its frames show no face *)
ST_Detect ==
    /\ main_pc = "running"
    /\ DetectFrame({<<>>})

(* face_detection_thread: an exception while it handles a frame, caught by the *)
(* inner handler (the result is still published) or by the outer one           *)
ST_DetectRaises ==
    /\ main_pc = "running"
    /\ frame_queue # <<>>
    /\ errors.detection < MaxErrors
    /\ frame_queue' = QueueAfterGet(frame_queue)
    /\ errors' = [errors EXCEPT !.detection = @ + 1]
    /\ \E handler \in {"inner", "outer"} :
         IF handler = "inner"
           THEN /\ latest_detection_result' = [faces |-> <<>>, events |-> <<>>]
                /\ UNCHANGED <<frame_faces, looked_up>>
           ELSE UNCHANGED publishVars
    /\ UNCHANGED <<stdin_buffer, stdin_closed, sent, sv_pc, frame_len, latest_frame,
                   sv_iter, returned, main_pc>>
    /\ UNCHANGED <<stdin, nextFrame, vs_pc, vs_latest, vs_iter, handed, taken, handedAtTake>>
    /\ UNCHANGED <<logVars, sessionVars, reloadVars>>
    /\ UNCHANGED <<resolveVars, outputVars, pipeVars, matchVars, lateVars>>

(* face_detection_thread: the get times out *)
ST_DetectEmpty ==
    /\ main_pc = "running"
    /\ D_Empty

(* output_thread: one tick *)
ST_Output ==
    /\ main_pc = "running"
    /\ O_Tick

(* output_thread: an exception in a tick (the print fails); "except Exception" *)
(* inside the loop, which goes on                                             *)
ST_OutputRaises ==
    /\ main_pc = "running"
    /\ out_pc = "sleep"
    /\ errors.output < MaxErrors
    /\ errors' = [errors EXCEPT !.output = @ + 1]
    /\ UNCHANGED <<stdin_buffer, stdin_closed, sent, sv_pc, frame_len, latest_frame,
                   sv_iter, returned, main_pc>>
    /\ UNCHANGED <<firstVars, resolveVars, outputVars, pipeVars, matchVars, lateVars>>

(* main thread: "while True: time.sleep(1); reload_embeddings_if_needed(app)" *)
M_Loop ==
    /\ main_pc = "running"
    /\ UNCHANGED vars

(* main thread: KeyboardInterrupt leaves the loop; the daemon threads end with *)
(* the process                                                                *)
M_KeyboardInterrupt ==
    /\ main_pc = "running"
    /\ main_pc' = "exited"
    /\ UNCHANGED <<stdin_buffer, stdin_closed, sent, sv_pc, frame_len, latest_frame,
                   sv_iter, returned, errors>>
    /\ UNCHANGED <<firstVars, resolveVars, outputVars, pipeVars, matchVars, lateVars>>

NextStream ==
    \/ T_Write
    \/ T_Close
    \/ SV_ReadPrefix
    \/ SV_ReadPayload
    \/ SV_ReadRaises
    \/ SV_Select
    \/ SV_SelectRaises
    \/ SV_Sleep
    \/ SV_Put
    \/ ST_Detect
    \/ ST_DetectRaises
    \/ ST_DetectEmpty
    \/ ST_Output
    \/ ST_OutputRaises
    \/ M_Loop
    \/ M_KeyboardInterrupt

-----------------------------------------------------------------------------
(* The matcher: np.dot, np.argmax and the threshold of face_detection_thread   *)
(* (backend/recognizer_arcface.py) for the faces of a frame at once, and of the *)
(* recognition loop of streaming-server/recognizer_arcface.py for one face at a *)
(* time. Embeddings are unit vectors in tenths, similarities in hundredths.     *)

\* rows of known_embeddings, faces of a frame
MaxRows == 3
MaxQueries == 2

\* normalised embeddings: unit vectors of two components, in tenths
UnitVectors == {<<10, 0>>, <<0, 10>>, <<6, 8>>, <<8, 6>>}

\* the sequences over a set with 1 to n elements
SeqsUpTo(S, n) == UNION {[1..k -> S] : k \in 1..n}

\* the inner product of two vectors, summed from the first component on
RECURSIVE SumProducts(_, _, _)
SumProducts(a, b, k) ==
    IF k > Len(a) THEN 0 ELSE a[k] * b[k] + SumProducts(a, b, k + 1)

\* np.dot(known_embeddings, emb): one similarity per row
DotVector(known, emb) == [i \in 1..Len(known) |-> SumProducts(known[i], emb, 1)]

\* np.dot(known_embeddings, normalized_embeddings.T): rows by faces
DotMatrix(known, embs) ==
    [i \in 1..Len(known) |-> [j \in 1..Len(embs) |-> SumProducts(known[i], embs[j], 1)]]

\* np.argmax of a vector: the scan keeps the first index of the largest value
RECURSIVE ArgMaxScan(_, _, _)
ArgMaxScan(v, i, best) ==
    IF i > Len(v) THEN best
    ELSE ArgMaxScan(v, i + 1, IF v[i] > v[best] THEN i ELSE best)

\* a scan that keeps the smallest value
NpArgMax_smallest(v) ==
    LET RECURSIVE Scan(_, _)
        Scan(i, best) == IF i > Len(v) THEN best
                         ELSE Scan(i + 1, IF v[i] < v[best] THEN i ELSE best)
    IN  Scan(2, 1)
NpArgMax(v) == ArgMaxScan(v, 2, 1)

\* column j of a matrix
Column(mat, j) == [i \in 1..Len(mat) |-> mat[i][j]]

\* what the matcher has for one face: the row, its score, and the name when the
\* score passes "best_score > CONF_THRESHOLD" (None without)
Match(best_idx, best_score, names) ==
    [best_idx |-> best_idx, best_score |-> best_score,
     name |-> IF best_score > CONF_THRESHOLD THEN names[best_idx] ELSE None]

\* best_indices = np.argmax(all_similarities, axis=0);
\* best_scores = all_similarities[best_indices, row_indices]; the names of the mask
BatchMatch(all_similarities, embs, names) ==
    [j \in 1..Len(embs) |->
        LET best_idx == NpArgMax(Column(all_similarities, j))
        IN  Match(best_idx, all_similarities[best_idx][j], names)]

\* sims = np.dot(known_embeddings, emb); best_idx = np.argmax(sims);
\* best_score = sims[best_idx]
SingleMatch(known, emb, names) ==
    LET sims == DotVector(known, emb)
        best_idx == NpArgMax(sims)
    IN  Match(best_idx, sims[best_idx], names)

\* a face database of 1 to MaxRows rows, each with its label, and the faces of a frame
InitMatch ==
    /\ mt_known \in SeqsUpTo(UnitVectors, MaxRows)
    /\ mt_names \in [1..Len(mt_known) -> Names]
    /\ mt_queries \in SeqsUpTo(UnitVectors, MaxQueries)
    /\ mt_pc = "frame"
    /\ mt_similarities = <<>>
    /\ mt_batch = <<>>
    /\ mt_single = <<>>

\* the matcher of the specifications that do not run it
InitMatchIdle ==
    /\ mt_known = <<>>
    /\ mt_names = <<>>
    /\ mt_queries = <<>>
    /\ mt_pc = "off"
    /\ mt_similarities = <<>>
    /\ mt_batch = <<>>
    /\ mt_single = <<>>

(* face_detection_thread: all faces of the frame in one multiplication *)
MT_Batch ==
    /\ mt_pc = "frame"
    /\ mt_similarities' = DotMatrix(mt_known, mt_queries)
    /\ mt_batch' = BatchMatch(mt_similarities', mt_queries, mt_names)
    /\ mt_pc' = "batched"
    /\ UNCHANGED <<mt_known, mt_names, mt_queries, mt_single>>
    /\ UNCHANGED nonMatchVars

(* the recognition loop of the streaming server: "for f in faces:", one face *)
MT_Single ==
    /\ mt_pc = "batched"
    /\ Len(mt_single) < Len(mt_queries)
    /\ mt_single' = Append(mt_single,
                           SingleMatch(mt_known, mt_queries[Len(mt_single) + 1], mt_names))
    /\ UNCHANGED <<mt_known, mt_names, mt_queries, mt_pc, mt_similarities, mt_batch>>
    /\ UNCHANGED nonMatchVars

NextMatch ==
    \/ MT_Batch
    \/ MT_Single

-----------------------------------------------------------------------------
(* FaceDatasetWatcher with its debounce, event by event *)

\* image events in one run
MaxImageEvents == 3

\* last_event_time holds no entry that is less than debounce_seconds old
NoRecentEvent == 0

InitWatch ==
    /\ last_event_time = NoRecentEvent
    /\ image_events = 0

\* should_process_event(file_path) for the image at position i of the directory:
\* false while the last processed event of that file is less than debounce_seconds
\* old
ShouldProcessEvent(i) == i # last_event_time

\* "reload_requested.set()", counted
RequestReload ==
    /\ reload_requested' = TRUE
    /\ change_events' = [change_events EXCEPT !.pending = Min(@ + 1, MaxPending)]

(* on_created: an image file appears under a path that had no event before *)
W_Created ==
    /\ image_events < MaxImageEvents
    /\ dataset.exists
    /\ Len(dataset.files) < MaxImages
    /\ \E img \in Images : dataset' = Dir(Append(dataset.files, img))
    /\ RequestReload
    /\ last_event_time' = Len(dataset.files) + 1
    /\ image_events' = image_events + 1
    /\ UNCHANGED <<known_embeddings, known_names, embeddings_lock, ld_pc, all_images,
                   temp_embeddings, temp_names, ld_ret, ld_pre, rd_pc, rd_embeddings,
                   rd_names>>
    /\ UNCHANGED nonWatchVars

(* on_modified: an image file is written again, with another picture *)
W_Modified ==
    /\ image_events < MaxImageEvents
    /\ dataset.exists
    /\ \E i \in DOMAIN dataset.files :
         /\ \E img \in Images :
              /\ img.label = dataset.files[i].label
              /\ img # dataset.files[i]
              /\ dataset' = Dir([dataset.files EXCEPT ![i] = img])
         /\ IF ShouldProcessEvent(i)
              THEN RequestReload /\ last_event_time' = i
              ELSE UNCHANGED <<reload_requested, change_events, last_event_time>>
    /\ image_events' = image_events + 1
    /\ UNCHANGED <<known_embeddings, known_names, embeddings_lock, ld_pc, all_images,
                   temp_embeddings, temp_names, ld_ret, ld_pre, rd_pc, rd_embeddings,
                   rd_names>>
    /\ UNCHANGED nonWatchVars

(* on_deleted: an image file is removed *)
W_Deleted ==
    /\ image_events < MaxImageEvents
    /\ dataset.exists
    /\ \E i \in DOMAIN dataset.files :
         /\ dataset' = Dir(RemoveAt(dataset.files, i))
         /\ IF ShouldProcessEvent(i)
              THEN /\ RequestReload
                   /\ last_event_time' = IF i < last_event_time THEN last_event_time - 1
                                         ELSE last_event_time
              ELSE /\ UNCHANGED <<reload_requested, change_events>>
                   /\ last_event_time' = NoRecentEvent
    /\ image_events' = image_events + 1
    /\ UNCHANGED <<known_embeddings, known_names, embeddings_lock, ld_pc, all_images,
                   temp_embeddings, temp_names, ld_ret, ld_pre, rd_pc, rd_embeddings,
                   rd_names>>
    /\ UNCHANGED nonWatchVars

(* debounce_seconds pass without an event on the file *)
W_DebounceOver ==
    /\ last_event_time # NoRecentEvent
    /\ last_event_time' = NoRecentEvent
    /\ UNCHANGED image_events
    /\ UNCHANGED <<reloadVars, nonWatchVars>>

\* the watcher, and the main loop calling reload_embeddings_if_needed
NextWatch ==
    \/ W_Created
    \/ W_Modified
    \/ W_Deleted
    \/ W_DebounceOver
    \/ L_NoRequest
    \/ L_Start
    \/ L_Exists
    \/ L_Collect
    \/ L_Process
    \/ L_Acquire
    \/ L_SwapEmbeddings
    \/ L_SwapNames
    \/ L_Release

-----------------------------------------------------------------------------
(* embedding_db: the table embeddings and its in-memory cache *)

\* calls in one run
MaxWrites == 2
MaxLoads == 2

\* the embeddings stored for a person: a first one and a newer one
EmbeddingValues == {"e1", "e2"}

\* a row of the table (one image per person)
Row(name, emb) == [person_name |-> name, embedding |-> emb]

\* the cache variables: None, or a value
NoCache == [cached |-> FALSE, value |-> {}]
Cached(v) == [cached |-> TRUE, value |-> v]

\* what load_embeddings_from_db returns: (None, None), or the arrays of the rows
NothingLoaded == [found |-> FALSE, rows |-> {}]
Loaded(rows) == [found |-> TRUE, rows |-> rows]

\* the names of rows, as names_list has them
NamesOf(rows) == {r.person_name : r \in rows}

\* "INSERT OR REPLACE INTO embeddings": the rows replace those of the same person
InsertOrReplace(table, rows) ==
    {r \in table : r.person_name \notin NamesOf(rows)} \cup rows

\* "DELETE FROM embeddings WHERE person_name = ?"
DeleteRows(table, name) == {r \in table : r.person_name # name}

\* the table after the call's statement is committed
Committed(table, op) ==
    IF op.kind = "delete" THEN DeleteRows(table, op.person_name)
    ELSE InsertOrReplace(table, op.rows)

NoWrite == [kind |-> "none", person_name |-> None, rows |-> {}]

\* save_embedding, save_embeddings_batch (for everybody) and delete_embedding
WriteCalls ==
    {[kind |-> "save", person_name |-> n, rows |-> {Row(n, e)}] :
        n \in Names, e \in EmbeddingValues}
      \cup {[kind |-> "batch", person_name |-> None, rows |-> {Row(n, e) : n \in Names}] :
              e \in EmbeddingValues}
      \cup {[kind |-> "delete", person_name |-> n, rows |-> {}] : n \in Names}

\* the table after the start-up enrolment
InitEmbeddingDb ==
    /\ embeddings_table = {Row("Ana_Cruz", "e1")}
    /\ embeddings_cache = NoCache
    /\ names_cache = NoCache
    /\ el_pc = "idle"
    /\ el_rows = {}
    /\ el_ret = <<>>
    /\ el_calls = 0
    /\ ew_pc = "idle"
    /\ ew_op = NoWrite
    /\ ew_calls = 0

InitLateIdle ==
    /\ InitWatch
    /\ InitEmbeddingDb

(* a thread calls save_embedding, save_embeddings_batch or delete_embedding *)
EW_Call ==
    /\ ew_pc = "idle"
    /\ ew_calls < MaxWrites
    /\ \E op \in WriteCalls : ew_op' = op
    /\ ew_pc' = "execute"
    /\ ew_calls' = ew_calls + 1
    /\ UNCHANGED <<embeddings_table, embeddings_cache, names_cache, el_pc, el_rows, el_ret,
                   el_calls>>
    /\ UNCHANGED nonEmbeddingDbVars

(* cursor.execute and conn.commit(); when sqlite raises, the except branch rolls *)
(* back and the call returns without touching the cache                          *)
EW_Commit ==
    /\ ew_pc = "execute"
    /\ \E raised \in BOOLEAN :
         IF raised
           THEN /\ ew_pc' = "idle"
                /\ ew_op' = NoWrite
                /\ UNCHANGED embeddings_table
           ELSE /\ embeddings_table' = Committed(embeddings_table, ew_op)
                /\ ew_pc' = "invalidate"
                /\ UNCHANGED ew_op
    /\ UNCHANGED <<embeddings_cache, names_cache, el_pc, el_rows, el_ret, el_calls, ew_calls>>
    /\ UNCHANGED nonEmbeddingDbVars

(* "with _cache_lock: _embeddings_cache = None; _names_cache = None", and the *)
(* call returns                                                               *)
EW_Invalidate ==
    /\ ew_pc = "invalidate"
    /\ embeddings_cache' = NoCache
    /\ names_cache' = NoCache
    /\ ew_pc' = "idle"
    /\ ew_op' = NoWrite
    /\ UNCHANGED <<embeddings_table, el_pc, el_rows, el_ret, el_calls, ew_calls>>
    /\ UNCHANGED nonEmbeddingDbVars

(* load_embeddings_from_db: "with _cache_lock: if _embeddings_cache is not None *)
(* and _names_cache is not None: return copies"                                 *)
EL_CheckCache ==
    /\ el_pc = "idle"
    /\ el_calls < MaxLoads
    /\ el_calls' = el_calls + 1
    /\ IF embeddings_cache.cached /\ names_cache.cached
         THEN /\ el_ret' = <<Loaded(embeddings_cache.value)>>
              /\ UNCHANGED el_pc
         ELSE /\ el_pc' = "select"
              /\ el_ret' = <<>>
    /\ UNCHANGED <<embeddings_table, embeddings_cache, names_cache, el_rows, ew_pc, ew_op,
                   ew_calls>>
    /\ UNCHANGED nonEmbeddingDbVars

(* "SELECT person_name, embedding FROM embeddings"; no rows, or an exception, *)
(* return (None, None)                                                        *)
EL_Select ==
    /\ el_pc = "select"
    /\ \E raised \in BOOLEAN :
         IF raised \/ embeddings_table = {}
           THEN /\ el_pc' = "idle"
                /\ el_ret' = <<NothingLoaded>>
                /\ UNCHANGED el_rows
           ELSE /\ el_rows' = embeddings_table
                /\ el_pc' = "update"
                /\ UNCHANGED el_ret
    /\ UNCHANGED <<embeddings_table, embeddings_cache, names_cache, el_calls, ew_pc, ew_op,
                   ew_calls>>
    /\ UNCHANGED nonEmbeddingDbVars

(* "with _cache_lock: _embeddings_cache = embeddings_array; _names_cache = *)
(* names_list", and the call returns the arrays; the locals end             *)
EL_UpdateCache ==
    /\ el_pc = "update"
    /\ embeddings_cache' = Cached(el_rows)
    /\ names_cache' = Cached(NamesOf(el_rows))
    /\ el_ret' = <<Loaded(el_rows)>>
    /\ el_pc' = "idle"
    /\ el_rows' = {}
    /\ UNCHANGED <<embeddings_table, el_calls, ew_pc, ew_op, ew_calls>>
    /\ UNCHANGED nonEmbeddingDbVars

NextEmbeddingDb ==
    \/ EW_Call
    \/ EW_Commit
    \/ EW_Invalidate
    \/ EL_CheckCache
    \/ EL_Select
    \/ EL_UpdateCache

-----------------------------------------------------------------------------
(* Specifications *)

\* the face database of the specifications that do not run a reload
InitReloadIdle ==
    /\ InitReload
    /\ dataset = Dir(<<[label |-> "Ana_Cruz", kind |-> "face"]>>)

\* the resolver of the specifications that do not run it: an empty store
InitResolveIdle ==
    /\ InitResolve
    /\ remote_store = <<>>

InitMoreIdle ==
    /\ InitResolveIdle
    /\ InitOutput
    /\ InitStream
    /\ InitMatchIdle
    /\ InitLateIdle

\* the part of the state a specification does not run starts online, store reachable
InitFrameSpec ==
    /\ InitFrame
    /\ InitLog({FALSE}, {"ok"})
    /\ InitSession
    /\ InitReloadIdle
    /\ InitMoreIdle

InitLogSpec ==
    /\ InitFrame
    /\ InitLog(BOOLEAN, NetStates)
    /\ InitSession
    /\ InitReloadIdle
    /\ InitMoreIdle

InitSessionSpec ==
    /\ InitFrame
    /\ InitLog({FALSE}, NetStates)
    /\ InitSession
    /\ InitReloadIdle
    /\ InitMoreIdle

InitReloadSpec ==
    /\ InitFrame
    /\ InitLog({FALSE}, {"ok"})
    /\ InitSession
    /\ InitReload
    /\ InitMoreIdle

InitResolveSpec ==
    /\ InitFrame
    /\ InitLog(BOOLEAN, {"ok"})
    /\ InitSession
    /\ InitReloadIdle
    /\ InitResolve
    /\ InitOutput
    /\ InitStream
    /\ InitMatchIdle
    /\ InitLateIdle

SpecResolve == InitResolveSpec /\ [][NextResolve]_vars

\* the pipeline starts as the session tracker does
SpecPipe == InitSessionSpec /\ [][NextPipe]_vars

\* the stream starts with the face database loaded and nothing on the pipe
SpecStream == InitFrameSpec /\ [][NextStream]_vars

\* The three daemon threads keep running while the process lives: each step of
\* theirs is taken once it stays enabled. What the camera process writes, the errors
\* raised and a KeyboardInterrupt are the environment's and carry no fairness.
FairStream ==
    /\ WF_vars(SV_ReadPrefix) /\ WF_vars(SV_ReadPayload) /\ WF_vars(SV_Select)
    /\ WF_vars(SV_Sleep) /\ WF_vars(SV_Put) /\ WF_vars(ST_Detect) /\ WF_vars(ST_Output)

FairSpecStream == InitFrameSpec /\ [][NextStream]_vars /\ FairStream

SpecReload == InitReloadSpec /\ [][NextReload]_vars

\* the matcher on every face database and frame of the bounds
InitMatchSpec ==
    /\ InitFrame
    /\ InitLog({FALSE}, {"ok"})
    /\ InitSession
    /\ InitReloadIdle
    /\ InitResolveIdle
    /\ InitOutput
    /\ InitStream
    /\ InitMatch
    /\ InitLateIdle

SpecMatch == InitMatchSpec /\ [][NextMatch]_vars

SpecSession == InitSessionSpec /\ [][NextSession]_vars

\* The detection thread keeps running: a frame waiting in frame_queue is processed.
\* The clock advances. Whether frames arrive is the camera's business.
FairSpecSession ==
    InitSessionSpec /\ [][NextSession]_vars /\ WF_vars(Tick) /\ WF_vars(D_Process)

SpecFrame == InitFrameSpec /\ [][NextFrame]_vars

SpecLog == InitLogSpec /\ [][NextLog]_vars

\* The drain is a daemon thread looping over sync_logs and time.sleep, and a call of
\* log_time_in / log_time_out runs to its return: each of their steps is taken once
\* it stays enabled. The network, the passing of time and the arrival of new calls
\* are the environment's and carry no fairness.
FairLog ==
    /\ WF_vars(SY_Fetch) /\ WF_vars(SY_Post) /\ WF_vars(SY_Mark) /\ WF_vars(SY_Purge)
    /\ WF_vars(LG_Validate) /\ WF_vars(LG_Queue) /\ WF_vars(LG_Connect)
    /\ WF_vars(LG_Post) /\ WF_vars(LG_Mark)

FairSpecLog == InitLogSpec /\ [][NextLog]_vars /\ FairLog

-----------------------------------------------------------------------------
(* Claims about the frame hand-off, checked under SpecFrame *)

-----------------------------------------------------------------------------
(* Claims about the attendance queue, checked under SpecLog / FairSpecLog *)

IsUnsynced(id) ==
    \E i \in DOMAIN attendance_logs_queue :
        attendance_logs_queue[i].id = id /\ attendance_logs_queue[i].synced = 0

\* C3: an entry queued while the remote store is unreachable stays in the queue
\* with synced = 0 for as long as the store has not been reachable (answering 200)
\* since the insert, and if the store becomes and stays reachable, every unsynced
\* entry is eventually marked synced by the drain.
C3_OfflineDurability ==
    /\ [](\A i \in DOMAIN attendance_logs_queue :
            since[attendance_logs_queue[i].id] = "offline"
               => attendance_logs_queue[i].synced = 0)
    /\ \A id \in 1..MaxLogs :
          (<>[](net = "ok")) => (IsUnsynced(id) ~> ~IsUnsynced(id))

\* C3 witness: a row inserted while the store was unreachable is marked synced
\* after the store came back, delivered by the drain.
C3_Witness ==
    \E i \in DOMAIN attendance_logs_queue :
        /\ since[attendance_logs_queue[i].id] = "restored"
        /\ attendance_logs_queue[i].synced = 1
        /\ lg_pc = "idle"
        /\ sy_pc # "sleep"

\* C4 (as stated): the remote store answers 200 to a request for a queued entry
\* at most once, whatever the interleaving of the inline attempt with the drain.
C4_AcceptedAtMostOnce ==
    \A id \in DOMAIN accepted : accepted[id] <= 1

\* C5: whenever log_time_in / log_time_out is at its connectivity check, at its
\* request to the remote store, or past it, queue_attendance_log has returned for
\* that call (with the id of the inserted row, or -1).
C5_WriteAheadOrdering ==
    lg_pc \in {"connect", "post", "mark"} =>
        /\ calls \in insert_done
        /\ lg_log_id # 0
        /\ lg_log_id > 0 => lg_log_id < next_log_id

\* C5 witness: a time-out call is about to send its request and its row is in the
\* queue, unsynced.
C5_Witness ==
    /\ lg_pc = "post"
    /\ lg_call.kind = "out"
    /\ lg_log_id > 0
    /\ IsUnsynced(lg_log_id)

-----------------------------------------------------------------------------
(* Session tracker properties *)

InEvents(type, name) == \E i \in DOMAIN events : events[i] = Event(type, name)

\* C6: time-in idempotence. In every session, from creation to eviction, at most
\* one time-in/late row is queued, at most one `time in`/`late` event and at most
\* one `first_detected` event are emitted, and time_in_logged, once true, stays
\* true for as long as the session exists.
C6_TimeInIdempotent ==
    /\ [](\A n \in DOMAIN person_sessions :
            /\ person_sessions[n].ev.in_rows <= 1
            /\ person_sessions[n].ev.time_in <= 1
            /\ person_sessions[n].ev.first_detected <= 1)
    /\ [][\A n \in DOMAIN person_sessions \cap DOMAIN person_sessions' :
            person_sessions[n].time_in_logged => person_sessions'[n].time_in_logged]_vars

\* a session that logged its time-in on time, left, came back, and whose
\* re-check on return found the class again, now as late
C6_Witness ==
    \E n \in DOMAIN person_sessions :
        /\ person_sessions[n].time_in_logged
        /\ person_sessions[n].ev.time_in = 1
        /\ person_sessions[n].ev.in_rows = 1
        /\ person_sessions[n].ev.first_detected = 1
        /\ person_sessions[n].log_type = "time in"
        /\ person_sessions[n].schedule.found
        /\ person_sessions[n].schedule.is_late
        /\ person_sessions[n].time_out_logged
        /\ InEvents("returned", n)

\* C7: a session goes from present to absent only in a step whose absence check
\* sees all three: the identity is not in the frame's batch, ABSENCE_TIMEOUT_SECONDS
\* or more have passed since its last_seen, and it has a resolved schedule; `left`
\* and `time_out` events are only about such sessions, never about one with no
\* schedule.
C7_LeaveOnlyWhenDue ==
    /\ [](\A n \in SessionNames :
            (InEvents("left", n) \/ InEvents("time_out", n)) =>
                /\ InEvents("left", n)
                /\ n \in DOMAIN person_sessions
                /\ ~person_sessions[n].is_present
                /\ person_sessions[n].schedule.found
                /\ n \notin detected)
    /\ [][\A n \in DOMAIN person_sessions \cap DOMAIN person_sessions' :
            (person_sessions[n].is_present /\ ~person_sessions'[n].is_present) =>
                /\ n \notin detected'
                /\ now - person_sessions[n].last_seen >= ABSENCE_TIMEOUT_SECONDS
                /\ person_sessions[n].schedule.found
                /\ \E i \in DOMAIN events' : events'[i] = Event("left", n)]_vars

\* a scheduled session has just left, exactly ABSENCE_TIMEOUT_SECONDS after it was
\* created, in a frame that did not show it
C7_Witness ==
    \E n \in DOMAIN person_sessions :
        /\ ~person_sessions[n].is_present
        /\ person_sessions[n].left_at = now
        /\ now = ABSENCE_TIMEOUT_SECONDS
        /\ InEvents("left", n)
        /\ n \notin detected

\* a present session with a class and a logged time-in, not seen for the timeout
Overdue(n) ==
    /\ n \in DOMAIN person_sessions
    /\ person_sessions[n].is_present
    /\ person_sessions[n].schedule.found
    /\ person_sessions[n].time_in_logged
    /\ now - person_sessions[n].last_seen >= ABSENCE_TIMEOUT_SECONDS

\* C8: absence timeout. A present session with a scheduled class and a logged
\* time-in that is not detected again does not stay present once
\* ABSENCE_TIMEOUT_SECONDS have passed since its last_seen, also when no further
\* frames arrive: it becomes absent.
C8_AbsenceTimeout ==
    \A n \in SessionNames : Overdue(n) ~> ~Overdue(n)

-----------------------------------------------------------------------------
(* Face database properties *)

\* the pair the matching step has read
Matched == <<rd_embeddings, rd_names>>

\* C9: reload atomicity. Whenever the matching step has read the matrix and the
\* name list, the pair it read is the pair from before the reload under way (or
\* the last one installed), or the complete pair that reload installs; the matrix
\* has as many rows as the list has names, and each row is the embedding of the
\* person the list names at that index.
C9_ReloadAtomicity ==
    rd_pc = "matched" =>
        /\ \/ Matched = ld_pre
           \/ /\ ld_pc \in {"acquire", "swap_embeddings", "swap_names", "release"}
              /\ Matched = <<temp_embeddings, temp_names>>
        /\ Len(rd_embeddings) = Len(rd_names)
        /\ \A i \in DOMAIN rd_embeddings : rd_embeddings[i].of = rd_names[i]

\* the matching step has read the old pair while a reload with another pair, of
\* another length, waits for the lock
C9_Witness ==
    /\ rd_pc = "matched"
    /\ embeddings_lock = "detect"
    /\ ld_pc = "acquire"
    /\ Matched = ld_pre
    /\ Len(temp_names) # Len(rd_names)

\* C10: a reload that fails (directory missing, no readable image, no face found)
\* leaves known_embeddings and known_names as they were when it began; the two
\* change only in the locked swap of a reload whose walk found a face.
C10_FailedReloadKeepsLive ==
    /\ []((\/ ld_pc \in {"exists", "collect", "process", "acquire", "raised"}
           \/ ld_pc = "idle" /\ ld_ret = <<FALSE>>) => Live = ld_pre)
    /\ [][Live' # Live =>
            /\ embeddings_lock = "main"
            /\ ld_pc \in {"swap_embeddings", "swap_names"}
            /\ temp_embeddings # <<>>
            /\ Len(temp_embeddings) = Len(temp_names)
            /\ FaceImages(all_images) # <<>>]_vars

\* a reload of a directory that holds images but no face has returned False, and
\* the faces loaded before are still live
C10_Witness ==
    /\ ld_pc = "idle"
    /\ ld_ret = <<FALSE>>
    /\ dataset.exists
    /\ dataset.files # <<>>
    /\ FaceImages(ReadableImages(dataset.files)) = <<>>
    /\ known_names # <<>>
    /\ Live = ld_pre

-----------------------------------------------------------------------------
(* Claims about the schedule resolver, checked under SpecResolve *)

\* the schedule the last finished look-up returned, None without one
LastResolved == IF rs_pc = "idle" /\ rs_ret # <<>> THEN rs_ret[1] ELSE NoneSchedule

\* C11 (as stated): on every resolution path a returned schedule (its time window
\* matches) has isValidSchedule = TRUE exactly when its room is the room mapped to
\* the camera, and no path raises.
C11_ValidityGating ==
    /\ rs_pc # "raised"
    /\ LastResolved # NoneSchedule =>
          LastResolved.isValidSchedule = SameRoom(LastResolved.room, rs_call.room_name)

\* C12 (as stated): a call of get_current_schedule for which the cache holds a
\* current schedule of the identity makes no remote request.
C12_CacheFirst == rs_hit => rs_requests = 0

\* the returns of get_current_schedule after a failed connectivity pre-check or a
\* raised request
FallbackPaths ==
    {"no_internet", "internet_error", "retries_exhausted", "request_error", "unexpected"}

\* C13: get_current_schedule never raises and makes at most 3 remote requests per
\* call; when the pre-check fails or the request raises, it returns the current
\* schedule of the identity from the cache if the cache has one, and None otherwise.
C13_GracefulDegradation ==
    /\ [](rs_pc # "raised" /\ rs_requests <= 3)
    /\ [][(rs_pc # "idle" /\ rs_pc' = "idle" /\ rs_path' \in FallbackPaths) =>
            LET hit == GetCurrentScheduleFromCache(schedule_cache, rs_call.name, rs_call.now)
            IN  IF hit = NoneSchedule THEN rs_ret' = <<NoneSchedule>>
                ELSE /\ rs_ret'[1] # NoneSchedule
                     /\ rs_ret'[1].id = hit.id
                     /\ rs_ret'[1].room = hit.room]_vars

\* the third request of a call raised and the call returned the cached schedule
C13_Witness ==
    /\ rs_pc = "idle"
    /\ rs_path = "retries_exhausted"
    /\ rs_requests = 3
    /\ LastResolved # NoneSchedule

-----------------------------------------------------------------------------
(* Claims about matching, publication and emission, checked under SpecPipe *)

\* the faces of the last processed frame that were not accepted
Rejected == SelectSeq(frame_faces, LAMBDA col : ~(BestScore(col) > CONF_THRESHOLD))

\* C14: every face entry of the published result and every identity in the session
\* map has a name of known_names, every entry has a score above CONF_THRESHOLD, and
\* a frame whose faces are all at or below the threshold publishes no face entry,
\* looks no schedule up, creates no session, and adds no event and no log row but
\* those of sessions that leave.
C14_ThresholdExclusion ==
    /\ []( /\ \A i \in DOMAIN latest_detection_result.faces :
                /\ latest_detection_result.faces[i].score > CONF_THRESHOLD
                /\ \E k \in DOMAIN known_names :
                      latest_detection_result.faces[i].name = known_names[k]
           /\ \A n \in DOMAIN person_sessions : \E k \in DOMAIN known_names : n = known_names[k]
           /\ Len(latest_detection_result.faces) <= Len(frame_faces) - Len(Rejected)
           /\ Len(Rejected) = Len(frame_faces) => detected = {} /\ looked_up = {}
           /\ looked_up \subseteq detected )
    /\ [][(frame_queue' # frame_queue /\ frame_queue' = <<>>
             /\ Len(SelectSeq(frame_faces', LAMBDA col : BestScore(col) > CONF_THRESHOLD)) = 0) =>
            /\ DOMAIN person_sessions' \subseteq DOMAIN person_sessions
            /\ latest_detection_result'.faces = <<>>
            /\ looked_up' = {}
            /\ \A i \in DOMAIN events' : events'[i][1] \in {"left", "time_out"}
            /\ next_log_id' = next_log_id \/ \E i \in DOMAIN events' : events'[i][1] = "time_out"]_vars

\* a frame with one face at the threshold was processed and nothing came of it
C14_Witness ==
    /\ frame_faces # <<>>
    /\ BestScore(frame_faces[1]) = CONF_THRESHOLD
    /\ latest_detection_result.faces = <<>>
    /\ person_sessions = <<>>

ShowsKnownFace(faces) == Len(faces) = 1 /\ BestScore(faces[1]) > CONF_THRESHOLD

\* C19 (as stated): three frames with the same known face were submitted and
\* processed, the identity's schedule resolved as valid, its time-in was logged and
\* the local row was written, and output_thread has nothing left to print: then the
\* output held exactly one 'time in' event in total, the last printed result has
\* exactly one face entry, with is_valid_schedule = true, and the attendance queue
\* holds exactly one row.
C19_ThreeFramesOneTimeIn ==
    ( /\ Len(submitted) = 3
      /\ \A i \in DOMAIN submitted : ShowsKnownFace(submitted[i])
      /\ frame_queue = <<>>
      /\ attendance_logs_queue # <<>>
      /\ "Ana_Cruz" \in DOMAIN person_sessions
      /\ person_sessions["Ana_Cruz"].schedule = Schedule("s1", TRUE, FALSE)
      /\ person_sessions["Ana_Cruz"].time_in_logged
      /\ out_pc = "sleep"
      /\ last_sent_signature = Signature(latest_detection_result)
      /\ latest_detection_result.events = <<>> )
    => /\ emitted_time_in = 1
       /\ Len(out_last.faces) = 1
       /\ out_last.faces[1].is_valid_schedule
       /\ Len(attendance_logs_queue) = 1

-----------------------------------------------------------------------------
(* Claims about the frame channel and the thread loops, checked under *)
(* SpecStream and FairSpecStream                                      *)

\* the payloads of the well-formed frames written, in order
Intact(frames) ==
    LET wf == SelectSeq(frames, WellFormed)
    IN  [i \in DOMAIN wf |-> wf[i].jpg_bytes]

IsPrefix(s, t) == Len(s) <= Len(t) /\ s = SubSeq(t, 1, Len(s))

\* C15 (as stated): as long as no read raised, frames of length 0 or over the cap
\* are the only ones lost: the sender thread has not ended, every frame
\* read_single_frame returned is the payload of a well-formed frame written, in the
\* order written, and once the pipe is read empty every well-formed frame written
\* was returned.
C15_MalformedFrameContainment ==
    errors.sender = 0 =>
      /\ sv_pc # "ended"
      /\ IsPrefix(returned, Intact(sent))
      /\ (stdin_buffer = <<>> /\ sv_pc # "payload") => returned = Intact(sent)

\* the process left its main loop; its daemon threads ended with it
Terminated == main_pc = "exited"

\* end of stream: the pipe is closed and read empty
EndOfStream == stdin_closed /\ stdin_buffer = <<>>

\* C16 (as stated): once the input stream delivers no more bytes, the pipeline
\* eventually terminates: the stages stop and the process leaves its main loop.
C16_EndOfStreamTermination == EndOfStream ~> Terminated

\* the loops of face_detection_thread and output_thread have no exit; the one of
\* video_sender_thread has its "break"
StagesRunning == main_pc = "running" /\ sv_pc # "ended"

\* C18 (as stated): whatever errors were raised while frames, look-ups and ticks
\* were handled, the ingestion, detection and emission stages are all still running
\* (as long as the process is).
C18_ErrorContainment == main_pc = "running" => StagesRunning

-----------------------------------------------------------------------------
(* Claims about the session tracker, continued (SpecSession) *)

\* the step wrote a time-in (or late) entry for the session of name n: the call of
\* log_time_in succeeded or inserted its row
TimeInWritten(n, before, after) ==
    LET ev == IF n \in DOMAIN before THEN before[n].ev ELSE NoEvents
    IN  after[n].ev.time_in > ev.time_in \/ after[n].ev.in_rows > ev.in_rows

\* C20 (as stated): a step writes a time-in (or late) entry for a session only when
\* the schedule resolved for it has isValidSchedule = true.
C20_LoggingGatedOnValidity ==
    [][\A n \in DOMAIN person_sessions' :
         TimeInWritten(n, person_sessions, person_sessions')
           => person_sessions'[n].schedule.isValidSchedule]_vars

\* a detection cycle ran: it took its frame from frame_queue
DetectionStep == Len(frame_queue') < Len(frame_queue)

\* the time-out rows of the attendance queue written for name n
TimeOutRows(q, n) ==
    {i \in DOMAIN q : q[i].instructor_name = n /\ q[i].log_type = "time out"}

HasEvent(evs, type, n) == \E i \in DOMAIN evs : evs[i] = Event(type, n)

\* the session of n went from present to absent in the step
Leaves(n) ==
    /\ n \in DOMAIN person_sessions /\ n \in DOMAIN person_sessions'
    /\ person_sessions[n].is_present /\ ~person_sessions'[n].is_present

\* C21 (as stated): a session with time_in_logged and not time_out_logged that goes
\* from present to absent gets a time-out row queued and a time_out event in the
\* events of that cycle; a time_out event or row is written only for a session with
\* a logged time-in; a session gets at most one time-out event and one time-out row.
C21_TimeOutOnLeaving ==
    /\ [][DetectionStep =>
            \A n \in SessionNames :
              /\ ( /\ Leaves(n)
                   /\ person_sessions[n].time_in_logged
                   /\ ~person_sessions[n].time_out_logged )
                 => /\ HasEvent(events', "time_out", n)
                    /\ TimeOutRows(attendance_logs_queue', n)
                         # TimeOutRows(attendance_logs_queue, n)
              /\ ( \/ HasEvent(events', "time_out", n)
                   \/ TimeOutRows(attendance_logs_queue', n)
                        # TimeOutRows(attendance_logs_queue, n) )
                 => /\ n \in DOMAIN person_sessions
                    /\ person_sessions[n].time_in_logged]_vars
    /\ [](\A n \in DOMAIN person_sessions :
            person_sessions[n].ev.time_out <= 1 /\ person_sessions[n].ev.out_rows <= 1)

\* the step ran check_absent_people: a detection cycle with the check due
AbsenceCheckStep == DetectionStep /\ now - last_absence_check >= ABSENCE_CHECK_PERIOD

\* the absence check removes every absent session whose left_at is the cleanup
\* timeout in the past
EvictsOld ==
    [][AbsenceCheckStep =>
         \A n \in DOMAIN person_sessions :
           (n \notin detected' /\ CleanupDue(person_sessions[n], now))
             => n \notin DOMAIN person_sessions']_vars

\* no step removes a session that is present
KeepsPresent ==
    [][\A n \in DOMAIN person_sessions :
         person_sessions[n].is_present => n \in DOMAIN person_sessions']_vars

\* a session that stopped being detected is on its way out: right after an absence
\* check, a session not in the frame and not seen for the absence timeout is absent
\* (only an absent session is ever removed)
StoppedLeaves ==
    [](\A n \in DOMAIN person_sessions :
         ( /\ last_absence_check = now
           /\ n \notin detected
           /\ now - person_sessions[n].last_seen >= ABSENCE_TIMEOUT_SECONDS )
         => ~person_sessions[n].is_present)

\* C22 (as stated): every absence check removes each absent session whose left_at
\* is at least SESSION_CLEANUP_TIMEOUT in the past, no present session is ever
\* removed, and every session that stops being detected goes that way out.
C22_SessionEviction == EvictsOld /\ KeepsPresent /\ StoppedLeaves

\* the sessions a step keeps: in the map before and after it
Kept == DOMAIN person_sessions \cap DOMAIN person_sessions'

\* C23: session invariants. For every session, in every step: total_time_seconds
\* never decreases, and changes only in a step that starts with is_present = true,
\* by the time since last_seen; left_at changes only when the session goes from
\* present to absent; a return leaves total_time_seconds alone and restarts
\* last_seen, so the time between left_at and the return is not counted; and in
\* every state a session with is_present = false has its left_at set.
C23_SessionInvariants ==
    /\ [][\A n \in Kept :
            LET b == person_sessions[n]
                a == person_sessions'[n]
            IN  /\ a.total_time_seconds >= b.total_time_seconds
                /\ a.total_time_seconds # b.total_time_seconds
                     => /\ b.is_present
                        /\ a.total_time_seconds - b.total_time_seconds
                             = a.last_seen - b.last_seen
                /\ a.left_at # b.left_at => (b.is_present /\ ~a.is_present)
                /\ (~b.is_present /\ a.is_present)
                     => /\ a.total_time_seconds = b.total_time_seconds
                        /\ a.last_seen = now]_vars
    /\ [](\A n \in DOMAIN person_sessions :
            ~person_sessions[n].is_present => person_sessions[n].left_at # NoTime)

\* a session that left, came back later and was seen again: its total is short of
\* the time since it was created by the time it was away
C23_Witness ==
    \E n \in DOMAIN person_sessions :
        /\ person_sessions[n].is_present
        /\ person_sessions[n].left_at # NoTime
        /\ person_sessions[n].last_seen > person_sessions[n].left_at
        /\ person_sessions[n].total_time_seconds > 0
        /\ person_sessions[n].total_time_seconds < person_sessions[n].last_seen

-----------------------------------------------------------------------------
(* Claims about the attendance queue, continued (SpecLog) *)

\* the call of log_time_in / log_time_out is past its validation
PastValidation == lg_pc \in {"queue", "connect", "post", "mark"}

\* C24: data-error skip. A call of log_time_in / log_time_out whose schedule id is
\* missing, empty, blank, 'None' or 'N/A' returns failure from its validation
\* without inserting a row or going on to the request (so the caller, which sets
\* time_in_logged / time_out_logged only on success, leaves the flag false), and
\* no row of the queue ever has such a schedule id.
C24_DataErrorSkip ==
    /\ [](\A i \in DOMAIN attendance_logs_queue :
            ValidScheduleId(attendance_logs_queue[i].schedule_id))
    /\ [](PastValidation => ValidScheduleId(lg_call.schedule_id))
    /\ [][(lg_pc = "validate" /\ lg_pc' # "validate"
             /\ ~ValidScheduleId(lg_call.schedule_id))
          => /\ lg_ret' = <<FALSE>>
             /\ lg_pc' = "idle"
             /\ UNCHANGED <<attendance_logs_queue, next_log_id, accepted, insert_done>>]_vars

\* a call with an unusable schedule id has returned failure, the queue still empty
C24_Witness ==
    /\ calls = 1
    /\ lg_pc = "idle"
    /\ lg_ret = <<FALSE>>
    /\ attendance_logs_queue = <<>>
    /\ insert_done = {}

\* the ids of the rows of the queue, and of its synced and unsynced rows
RowIds(q) == {q[i].id : i \in DOMAIN q}
SyncedIds(q) == {q[i].id : i \in {j \in DOMAIN q : q[j].synced = 1}}
UnsyncedIds(q) == {q[i].id : i \in {j \in DOMAIN q : q[j].synced = 0}}

\* C25: queue entry lifecycle. A row is synced only once the remote store has
\* answered 200 to a request for it (so a failed or rejected delivery leaves it
\* unsynced), a synced row never becomes unsynced again, and a step deletes only
\* rows that are synced and older than the retention window: an unsynced row is
\* never deleted.
C25_EntryLifecycle ==
    /\ [](\A id \in SyncedIds(attendance_logs_queue) : accepted[id] >= 1)
    /\ [][/\ UnsyncedIds(attendance_logs_queue) \subseteq RowIds(attendance_logs_queue')
          /\ SyncedIds(attendance_logs_queue) \cap RowIds(attendance_logs_queue')
               \subseteq SyncedIds(attendance_logs_queue')
          /\ RowIds(attendance_logs_queue) \ RowIds(attendance_logs_queue')
               \subseteq SyncedIds(attendance_logs_queue) \cap week_old]_vars

\* the first row was delivered, grew old and was purged, while the second row,
\* whose delivery failed, is still there unsynced
C25_Witness ==
    /\ next_log_id = 3
    /\ RowIds(attendance_logs_queue) = {2}
    /\ UnsyncedIds(attendance_logs_queue) = {2}
    /\ 1 \in week_old
    /\ sy_pc = "sleep"

\* a step of the drain that sends the request for one log of its batch
DeliveryAttempt == sy_pc = "post" /\ (sy_pc' # "post" \/ sy_i' # sy_i)

\* C26: retry suppression in the drain. Once a request of a sync_logs call has
\* failed with a connectivity error (it raised), that call sends no request for
\* the remaining logs of its batch; the next attempt is the one of a later cycle.
C26_RetrySuppression == [][DeliveryAttempt => ~sy_failed]_vars

(* Claims about the reload flag (SpecReload) *)

\* a check of the flag that goes on to load_embeddings
ReloadStarts == ld_pc = "idle" /\ ld_pc' # "idle"

\* C27: debounced reload. The change events between two checks of the flag are
\* kept as one set flag, however many they are; the check that finds the flag set
\* clears it, taking all of them, and starts one reload; a check that finds no
\* event since the last clear starts none.
C27_DebouncedReload ==
    /\ [](reload_requested <=> change_events.pending > 0)
    /\ [][ReloadStarts => /\ reload_requested
                          /\ ~reload_requested'
                          /\ change_events'.pending = 0
                          /\ change_events'.answered = change_events.pending]_vars
    /\ [][(ld_pc = "idle" /\ ~reload_requested) => ld_pc' = "idle"]_vars

\* one reload under way for two (or more) change events, and none left pending
C27_Witness ==
    /\ ld_pc # "idle"
    /\ change_events.answered = MaxPending
    /\ ~reload_requested

\* a step of log_time_in / log_time_out that sends its request
LoggerRequest == lg_pc = "post" /\ lg_pc' # "post"

\* C28: offline mode uses local data only. With OFFLINE_MODE set, log_time_in and
\* log_time_out return after the local insert without reaching their connectivity
\* test or their request, and no step of the logger or of the drain thread sends
\* a request to the remote backend.
C28_OfflineLocalOnly ==
    /\ [](OFFLINE_MODE => lg_pc \notin {"connect", "post", "mark"})
    /\ [][OFFLINE_MODE => ~(LoggerRequest \/ DeliveryAttempt)]_vars

(* Claims about the matcher (SpecMatch) *)

MinutesAfterStart(startTime, current_time) ==
    ((current_time - startTime + (DayMinutes \div 2)) % DayMinutes) - (DayMinutes \div 2)

\* C30: lateness. A schedule returned by get_current_schedule has is_late set
\* exactly when the time of the call is more than LATE_THRESHOLD_MINUTES after the
\* start time of the class, and not set in the 30 minutes before the class, for
\* every start time of the day.
C30_Lateness ==
    (LastResolved # NoneSchedule /\ rs_path # "local_db") =>
        LET s == remote_store[FormatInstructorName(rs_call.name)][1]
        IN  LastResolved.is_late
                = (MinutesAfterStart(s.startTime, rs_call.now) > LATE_THRESHOLD_MINUTES)

(* Claims about the time window and the room of a schedule (SpecResolve) *)

\* the reading of the clock lies from EARLY_MINUTES before the start through the
\* end of the class, the minutes before the start counted into the previous day
InWindow(startTime, endTime, current_time) ==
    (current_time - (startTime - EARLY_MINUTES)) % DayMinutes
        <= endTime - startTime + EARLY_MINUTES

\* C31: time window with grace period. For a class held today the window test of
\* get_current_schedule_from_cache and the look-up of
\* local_database.get_current_schedule both accept a reading of the clock exactly
\* when it lies from 30 minutes before the start through the end, the 30 minutes
\* wrapping to the previous day: the two give the same answer.
C31_TimeWindow ==
    (rs_path = "local_db" /\ FormatInstructorName(rs_call.name) \in DOMAIN remote_store) =>
        LET s == remote_store[FormatInstructorName(rs_call.name)][1]
            expected == InWindow(s.startTime, s.endTime, rs_call.now)
        IN  /\ TimeMatches(s.startTime, s.endTime, rs_call.now) = expected
            /\ s.today => ((rs_ret[1] # NoneSchedule) = expected)

\* x is a substring of y: y is some prefix, then x, then some suffix
IsSubstring(x, y) == \E i \in 0..Len(y) : \E j \in i..Len(y) : SubSeq(y, i + 1, j) = x

\* C32: room matching in local_database.get_current_schedule. With a camera room
\* given, roomMatch and isValidSchedule are true exactly when the trimmed,
\* lower-cased schedule room and camera room are equal or one is a substring of the
\* other; with no camera room given, roomMatch is None and isValidSchedule is true.
C32_LocalRoomMatching ==
    (rs_path = "local_db" /\ rs_ret[1] # NoneSchedule) =>
        LET r == rs_ret[1]
            a == StripSpaces(Lower(r.room))
            b == StripSpaces(Lower(rs_call.room_name))
            related == a = b \/ IsSubstring(a, b) \/ IsSubstring(b, a)
        IN  IF rs_call.room_name = NoRoom
            THEN r.roomMatch = "None" /\ r.isValidSchedule
            ELSE /\ r.isValidSchedule = related
                 /\ r.roomMatch = (IF related THEN "True" ELSE "False")

\* a class in 'Lab 10' looked up for the camera room 'Lab 1': a substring, a match
C32_Witness ==
    /\ rs_path = "local_db"
    /\ rs_ret[1] # NoneSchedule
    /\ rs_ret[1].room = Lab10
    /\ rs_call.room_name = Lab1
    /\ rs_ret[1].roomMatch = "True"

-----------------------------------------------------------------------------
(* Claims about the schedule re-check of an existing session (SpecSession) *)

\* the detection cycle of the step ran with these answers of the schedule lookup
\* and this outcome of the local insert
CycleRanWith(lookup, inserted) ==
    /\ \A n \in SessionNames :
          ~LookupUsed(person_sessions, n, detected', now) => lookup[n] = NoSchedule
    /\ With(DetectionCycle(person_sessions, LogState, last_absence_check, detected',
                           lookup, now, inserted),
            LAMBDA r : /\ person_sessions' = r.ps
                       /\ events' = r.events
                       /\ attendance_logs_queue' = r.ls.q
                       /\ accepted' = r.ls.accepted)

\* the session of n is detected in the step and its re-check is due: it was absent,
\* or its last_schedule_check is the re-check interval in the past
RecheckExpected(n) ==
    /\ n \in DOMAIN person_sessions /\ n \in detected'
    /\ \/ ~person_sessions[n].is_present
       \/ now - person_sessions[n].last_schedule_check >= SCHEDULE_RECHECK_INTERVAL_SECONDS

\* C33: periodic re-resolution. In every detection cycle and for every existing
\* session that is detected in it: the schedule is looked up again exactly when the
\* session was absent or its last_schedule_check is at least
\* SCHEDULE_RECHECK_INTERVAL_SECONDS in the past, and last_schedule_check restarts
\* then; a return from absence emits a returned event; when the lookup finds a
\* schedule (with a usable _id) for a session that had none and no logged time-in,
\* the time-in is logged and the time in / late event emitted in that same cycle;
\* when the lookup finds no schedule the session's schedule becomes None; and
\* without a re-check the schedule stays as it was.
C33_PeriodicRecheck ==
    [][DetectionStep =>
         \A n \in DOMAIN person_sessions \cap detected' :
           \A lookup \in [SessionNames -> ScheduleResults], inserted \in BOOLEAN :
             CycleRanWith(lookup, inserted) =>
               LET b == person_sessions[n]
                   a == person_sessions'[n]
                   new == lookup[n]
               IN  /\ n \in DOMAIN person_sessions'
                   /\ (n \in looked_up') = RecheckExpected(n)
                   /\ RecheckExpected(n) => a.last_schedule_check = now
                   /\ ~b.is_present => (a.is_present /\ HasEvent(events', "returned", n))
                   /\ ( /\ RecheckExpected(n)
                        /\ new.found /\ CallerScheduleId(new) # None
                        /\ ~b.schedule.found /\ ~b.time_in_logged )
                      => /\ a.schedule = new
                         /\ a.time_in_logged
                         /\ a.log_type = LogTypeOf(new.is_late)
                         /\ HasEvent(events', LogTypeOf(new.is_late), n)
                   /\ (RecheckExpected(n) /\ ~new.found) => a.schedule = NoSchedule
                   /\ ~RecheckExpected(n)
                        => /\ a.schedule = b.schedule
                           /\ a.last_schedule_check = b.last_schedule_check]_vars

\* a session created without a schedule, still present after the absence timeout,
\* got its schedule and its time-in from the re-check
C33_Witness ==
    /\ "Ana_Cruz" \in DOMAIN person_sessions
    /\ "Ana_Cruz" \in looked_up
    /\ person_sessions["Ana_Cruz"].last_schedule_check = now
    /\ person_sessions["Ana_Cruz"].last_schedule_check > 0
    /\ person_sessions["Ana_Cruz"].left_at = NoTime
    /\ person_sessions["Ana_Cruz"].schedule.found
    /\ person_sessions["Ana_Cruz"].time_in_logged
    /\ person_sessions["Ana_Cruz"].ev.first_detected = 0
    /\ HasEvent(events, "time in", "Ana_Cruz")

-----------------------------------------------------------------------------
(* Claims about the hand-over of events from detection to emission (SpecPipe) *)

\* the events of latest_detection_result that output_thread has not printed: with
\* output_thread before its next tick, all of them (after a print with events it is
\* at the clearing step)
Unemitted ==
    IF out_pc = "sleep" THEN latest_detection_result.events ELSE <<>>

\* output_thread runs "latest_detection_result['events'] = []"
ClearStep == out_pc = "clear" /\ out_pc' = "sleep"

\* C34 (as stated): no event is lost or repeated between detection and emission.
\* A detection cycle replaces latest_detection_result only when every event in it
\* has been printed; the clearing step of output_thread erases only the events it
\* printed; and no more time in / late events are printed than the sessions
\* produced.
C34_NoEventLostOrRepeated ==
    /\ [][DetectionStep => Unemitted = <<>>]_vars
    /\ [][ClearStep => latest_detection_result.events \in {<<>>, out_last.events}]_vars
    /\ [](\A n \in SessionNames :
            emitted_time_in <= IF n \in DOMAIN person_sessions
                                 THEN person_sessions[n].ev.time_in ELSE 0)

-----------------------------------------------------------------------------
(* Claims about the closing of a logged time-in (FairSpecSessionFed) *)

\* The camera keeps sending frames, the detection thread keeps processing them and
\* the clock advances: every detection cycle that is due runs.
FairSpecSessionFed == FairSpecSession /\ WF_vars(S_FrameArrives)

\* the time-in of n is logged, and n has not been detected for the absence timeout
OpenTimeIn(n) ==
    /\ n \in DOMAIN person_sessions
    /\ person_sessions[n].time_in_logged
    /\ n \notin detected
    /\ now - person_sessions[n].last_seen >= ABSENCE_TIMEOUT_SECONDS

\* a time-out entry was queued for the session of n
TimeOutQueued(n) ==
    n \in DOMAIN person_sessions /\ person_sessions[n].ev.out_rows >= 1

\* C35 (as stated): every logged time-in is eventually closed. A session with
\* time_in_logged whose identity has not been detected for the absence timeout gets
\* a time-out entry queued, unless the identity is detected again, whatever the
\* schedule re-checks did to the session's schedule before.
C35_TimeInClosed ==
    \A n \in SessionNames : OpenTimeIn(n) ~> (TimeOutQueued(n) \/ n \in detected)

-----------------------------------------------------------------------------
(* Claims about what a reported success stands for (SpecLog) *)

\* log_time_in / log_time_out returns True in the step
ReturnsSuccess == lg_pc # "idle" /\ lg_pc' = "idle" /\ lg_ret' = <<TRUE>>

\* the remote store accepted the event (the call returns after a 200), or the row
\* of the call is in the attendance queue, or it was there and the store accepted it
DurableRecord ==
    \/ lg_pc = "mark"
    \/ /\ lg_log_id' > 0
       /\ \/ \E i \in DOMAIN attendance_logs_queue' :
                attendance_logs_queue'[i].id = lg_log_id'
          \/ accepted'[lg_log_id'] >= 1

\* C36 (as stated): reported success implies a durable record. Whenever
\* log_time_in or log_time_out returns success, the attendance queue holds the
\* row of the event or the remote store has accepted it, also when the local
\* insert failed while the store could not be reached.
C36_SuccessIsDurable == [][ReturnsSuccess => DurableRecord]_vars


-----------------------------------------------------------------------------
(* The drain on a queue that filled up while the store could not be reached, *)
(* and the claim about its oldest-first batches (FairSpecDrain)              *)

\* rows at the head of the queue that the store rejects, and rows behind them that
\* it would accept
MaxStale == BATCH_SIZE
MaxFresh == 2

\* the time-in row of a call of log_time_in for schedule sid
DrainRow(id, sid) ==
    NewRow(id, [kind |-> "in", name |-> "Ana_Cruz", schedule_id |-> sid, is_late |-> FALSE])

\* the queue in the order of created_at: the stale rows first
DrainQueue(stale, fresh) ==
    [i \in 1..(stale + fresh) |-> DrainRow(i, IF i <= stale THEN "gone" ELSE "s1")]

\* the store is reachable again; the queue holds the rows of the calls made
\* meanwhile, none of them delivered
InitDrain ==
    /\ OFFLINE_MODE = FALSE
    /\ net = "ok"
    /\ \E stale \in 0..MaxStale, fresh \in 1..MaxFresh :
         /\ attendance_logs_queue = DrainQueue(stale, fresh)
         /\ next_log_id = stale + fresh + 1
         /\ accepted = [i \in 1..(stale + fresh) |-> 0]
         /\ since = [i \in 1..(stale + fresh) |-> "restored"]
    /\ week_old = {}
    /\ insert_done = {}
    /\ calls = 0
    /\ lg_pc = "idle"
    /\ lg_call = NoCall
    /\ lg_log_id = 0
    /\ lg_ret = <<>>
    /\ sy_pc = "sleep"
    /\ sy_batch = <<>>
    /\ sy_i = 0
    /\ sy_failed = FALSE

InitDrainSpec ==
    /\ InitFrame
    /\ InitDrain
    /\ InitSession
    /\ InitReloadIdle
    /\ InitMoreIdle

\* _sync_loop on its own: no call of log_time_in / log_time_out comes in
NextDrain ==
    \/ SY_Fetch
    \/ SY_Post
    \/ SY_Mark
    \/ SY_Purge

\* The drain is a daemon thread looping over sync_logs and time.sleep: each of its
\* steps is taken once it stays enabled.
FairSpecDrain ==
    /\ InitDrainSpec /\ [][NextDrain]_vars
    /\ WF_vars(SY_Fetch) /\ WF_vars(SY_Post) /\ WF_vars(SY_Mark) /\ WF_vars(SY_Purge)

\* the row with this id is in the queue and the store would accept it
StoreAccepts(id) ==
    \E i \in DOMAIN attendance_logs_queue :
        /\ attendance_logs_queue[i].id = id
        /\ attendance_logs_queue[i].schedule_id \in StoreSchedules

\* C37 (as stated): no head-of-line starvation in the drain. With the remote store
\* reachable, every unsynced entry that the store would accept is eventually marked
\* synced, also when BATCH_SIZE or more older entries are rejected by the store on
\* every attempt.
C37_NoStarvation ==
    \A id \in 1..(MaxStale + MaxFresh) :
        (IsUnsynced(id) /\ StoreAccepts(id)) ~> (id \in SyncedIds(attendance_logs_queue))


-----------------------------------------------------------------------------
(* Claims about the order of the presence events (SpecSession) *)

\* how often the event is in the events of a cycle
EventCount(evs, type, n) == Cardinality({i \in DOMAIN evs : evs[i] = Event(type, n)})

\* the session of n went from absent to present in the step
Returns(n) ==
    /\ n \in DOMAIN person_sessions /\ n \in DOMAIN person_sessions'
    /\ ~person_sessions[n].is_present /\ person_sessions'[n].is_present

\* C38: per identity, left and returned events alternate, starting with left. A
\* session starts present; a cycle emits one left event for it exactly when it goes
\* from present to absent, and one returned event exactly when a detection finds it
\* with is_present = false, which makes it present again; left_at is set by the
\* step of the left event and by no other, and the absence the returned event
\* reports is the time from that left_at to the return, in hundredths of a minute.
C38_PresenceEvents ==
    [][DetectionStep =>
         \A n \in SessionNames :
           /\ EventCount(events', "left", n) = (IF Leaves(n) THEN 1 ELSE 0)
           /\ EventCount(events', "returned", n) = (IF Returns(n) THEN 1 ELSE 0)
           /\ Returns(n) = ( /\ n \in DOMAIN person_sessions
                             /\ ~person_sessions[n].is_present
                             /\ n \in detected' )
           /\ (n \in DOMAIN person_sessions' /\ n \notin DOMAIN person_sessions)
                => person_sessions'[n].is_present
           /\ Leaves(n) => person_sessions'[n].left_at = now
           /\ (n \in Kept /\ ~Leaves(n))
                => person_sessions'[n].left_at = person_sessions[n].left_at
           /\ Returns(n)
                => 6 * person_sessions'[n].ev.absence_minutes
                     \in (10 * (now - person_sessions[n].left_at) - 3)
                          .. (10 * (now - person_sessions[n].left_at) + 3)]_vars

\* a session created at 0 left at 300 and was found again later: the returned event
\* reports the time since 300
C38_Witness ==
    /\ "Ana_Cruz" \in DOMAIN person_sessions
    /\ HasEvent(events, "returned", "Ana_Cruz")
    /\ person_sessions["Ana_Cruz"].left_at = ABSENCE_TIMEOUT_SECONDS
    /\ person_sessions["Ana_Cruz"].last_seen = now
    /\ person_sessions["Ana_Cruz"].ev.absence_minutes > 0

-----------------------------------------------------------------------------
(* Claims about the watcher and the hot reload (FairSpecWatch) *)

InitWatchSpec ==
    /\ InitFrame
    /\ InitLog({FALSE}, {"ok"})
    /\ InitSession
    /\ InitReload
    /\ InitResolveIdle
    /\ InitOutput
    /\ InitStream
    /\ InitMatchIdle
    /\ InitLateIdle

\* The main thread loops over time.sleep(1) and reload_embeddings_if_needed, and a
\* reload runs to its end: each of its steps is taken once it stays enabled. The
\* image events and the passing of the debounce window are the environment's.
FairSpecWatch ==
    /\ InitWatchSpec /\ [][NextWatch]_vars
    /\ WF_vars(L_Start) /\ WF_vars(L_Exists) /\ WF_vars(L_Collect) /\ WF_vars(L_Process)
    /\ WF_vars(L_Acquire) /\ WF_vars(L_SwapEmbeddings) /\ WF_vars(L_SwapNames)
    /\ WF_vars(L_Release)

\* the live pair is what load_embeddings makes of the directory as it is now (a
\* directory without a face picture makes load_embeddings fail and keeps the pair)
LiveReflectsDirectory ==
    \/ FaceImages(ReadableImages(dataset.files)) = <<>>
    \/ Live = <<TempEmbeddings(ReadableImages(dataset.files)),
                TempNames(ReadableImages(dataset.files))>>

\* C39 (as stated): no dataset change is missed by hot reload. After the last
\* change to an image file a reload that starts after it eventually runs, so from
\* some point on the live matrix reflects the final directory contents, also when
\* the change arrives while a reload is in progress or within the debounce window
\* of an earlier event on the same file.
C39_NoChangeMissed == <>[]LiveReflectsDirectory

-----------------------------------------------------------------------------
(* Claims about the cache of the embedding database (SpecEmbeddingDb) *)

InitEmbeddingDbSpec ==
    /\ InitFrame
    /\ InitLog({FALSE}, {"ok"})
    /\ InitSession
    /\ InitReloadIdle
    /\ InitResolveIdle
    /\ InitOutput
    /\ InitStream
    /\ InitMatchIdle
    /\ InitLateIdle

\* one thread loading, another one writing
SpecEmbeddingDb == InitEmbeddingDbSpec /\ [][NextEmbeddingDb]_vars

\* a call of load_embeddings_from_db that starts with no write under way and
\* returns from the cache
ReturnsCached ==
    /\ ew_pc = "idle"
    /\ el_pc = "idle" /\ el_calls' = el_calls + 1 /\ el_pc' = "idle"

\* C40 (as stated): embedding database cache coherence. Once every write has
\* committed and returned, the in-memory cache, when it holds a snapshot, holds the
\* rows of the table as they are, and a call of load_embeddings_from_db that starts
\* then and is answered from the cache returns those rows.
C40_CacheCoherence ==
    /\ []((ew_pc = "idle" /\ embeddings_cache.cached)
            => embeddings_cache.value = embeddings_table)
    /\ [][ReturnsCached => el_ret' = <<Loaded(embeddings_table)>>]_vars
====
